---- MODULE Spec2Model ----
(***************************************************************************)
(* A model of the rye tree-walking interpreter (package interpreter).      *)
(*                                                                         *)
(* The interpreter state is a heap of environments (Environment structs,   *)
(* addressed by their position in envs; 0 is the nil pointer), a heap of   *)
(* lambda nodes (the only Node values whose fields are mutated after       *)
(* creation: interpretCall assigns res.Scope), a heap of backing arrays    *)
(* of Go slices (arrs: a list value is a slice header, the array and the   *)
(* length; the capacity is the length of the array) and a heap of Go maps  *)
(* (objs: an object value is a pointer to its map).  Every other value     *)
(* node is immutable once built and is modelled by a record.  Each evaluation *)
(* function of interpret.go / interpretUtils.go is an operator taking the  *)
(* node, the environment pointer and the heap, and returning the triple    *)
(* (res, err, heap).  err = "" is Go's nil error; a nil pointer            *)
(* dereference (a runtime panic, which nothing recovers) is err = PANIC.   *)
(*                                                                         *)
(* History bookkeeping that the Go program does not keep is confined to    *)
(* the heap fields born, log, raised, depth and nextId and to the          *)
(* variables last and hist; no modelled program decision reads them.       *)
(* lines counts the lines interpreted and bounds the length of a run;      *)
(* pending is the line read and parsed but not yet interpreted.            *)
(***************************************************************************)
EXTENDS Integers, Sequences, FiniteSets, TLC

VARIABLES envs, nodes, arrs, objs, born, cur, last, log, lines, mode, hist, pending

vars == <<envs, nodes, arrs, objs, born, cur, last, log, lines, mode, hist, pending>>

-----------------------------------------------------------------------------
(* Bounds of the model *)

MaxLines == 3
MaxScopeOps == 4
MaxAdderLines == 5
MaxToggleLines == 8
MaxIter == 4
MaxDepth == 2
MaxOperand == 2
MaxLen == 3
MaxSetOps == 2
MaxSrc == 3
MaxTokens == 3

-----------------------------------------------------------------------------
(* Nodes and values *)

NilNode == [Type |-> "nil"]

PANIC == "panic: nil pointer dereference"

FAIL == [Type |-> "FailNT"]
SUCCESS == [Type |-> "SuccessNT"]
TrueNode == [Type |-> "BoolNT", Val |-> TRUE]
FalseNode == [Type |-> "BoolNT", Val |-> FALSE]

Abs(i) == IF i < 0 THEN -i ELSE i

RECURSIVE Gcd(_, _)
Gcd(a, b) == IF b = 0 THEN a ELSE Gcd(b, a % b)

\* A float64 is modelled exactly, as a reduced fraction <<num, den>>, den > 0.
Frac(n, d) ==
    LET s == IF d < 0 THEN -1 ELSE 1
        g == Gcd(Abs(n), Abs(d))
    IN  <<(s * n) \div g, (s * d) \div g>>

IntToFloat(i) == <<i, 1>>

\* int64(float64): truncation toward zero
FloatToInt(x) == IF x[1] < 0 THEN -((-x[1]) \div x[2]) ELSE x[1] \div x[2]

FloatAdd(x, y) == Frac(x[1] * y[2] + y[1] * x[2], x[2] * y[2])
FloatSub(x, y) == Frac(x[1] * y[2] - y[1] * x[2], x[2] * y[2])
FloatMul(x, y) == Frac(x[1] * y[1], x[2] * y[2])
FloatDiv(x, y) == Frac(x[1] * y[2], x[2] * y[1])
FloatLess(x, y) == x[1] * y[2] < y[1] * x[2]
FloatIsZero(x) == x[1] = 0

\* Go's % on int64: the result has the sign of the dividend
GoMod(a, b) == IF a < 0 THEN -((-a) % Abs(b)) ELSE a % Abs(b)

newInt(val) == [Type |-> "IntNT", Val |-> val]
newFloat(val) == [Type |-> "FloatNT", Val |-> val]
newBool(val) == [Type |-> "BoolNT", Val |-> val]
newString(val) == [Type |-> "StringNT", Val |-> val]
\* val is a slice header [arr, len]
newList(val) == [Type |-> "ListNT", arr |-> val.arr, len |-> val.len]

\* n.Val.(List): the elements of a list value (through its backing array) or
\* the element expressions of a list literal of the syntax tree
ListOf(n, st) ==
    IF "arr" \in DOMAIN n
    THEN IF n.len = 0 THEN <<>> ELSE SubSeq(st.arrs[n.arr], 1, n.len)
    ELSE n.Val

\* Go's append(l, xs...) on a slice header l.  With room in the backing array
\* the elements are written into it and the array is shared with l; without,
\* a new array is allocated whose capacity is the one runtime.growslice
\* gives for pointer elements (twice the old capacity, or the needed length
\* when that is more, rounded up to a size class of the allocator).
\* Returns the new header and the heap.
goAppend(l, xs, st) ==
    LET cap == IF l.arr = 0 THEN 0 ELSE Len(st.arrs[l.arr])
        need == l.len + Len(xs)
        newcap == IF need > 2 * cap THEN need ELSE 2 * cap
        classes == {1, 2, 3, 4, 6, 8, 10, 12, 14, 16}
        rounded == CHOOSE c \in classes :
                       c >= newcap /\ \A d \in classes : d >= newcap => c <= d
    IN  IF need <= cap
        THEN [val |-> [arr |-> l.arr, len |-> need],
              st |-> IF Len(xs) = 0 THEN st
                     ELSE [st EXCEPT !.arrs[l.arr] =
                              [i \in 1..cap |-> IF i > l.len /\ i <= need
                                                THEN xs[i - l.len] ELSE @[i]]]]
        ELSE [val |-> [arr |-> Len(st.arrs) + 1, len |-> need],
              st |-> [st EXCEPT !.arrs = Append(@,
                         [i \in 1..rounded |->
                              IF i <= l.len THEN st.arrs[l.arr][i]
                              ELSE IF i <= need THEN xs[i - l.len]
                              ELSE NilNode])]]

RECURSIVE NatToString(_)
NatToString(i) ==
    LET Digit(d) == SubSeq("0123456789", d + 1, d + 1)
    IN  IF i < 10 THEN Digit(i) ELSE NatToString(i \div 10) \o Digit(i % 10)

IntToString(i) == IF i < 0 THEN "-" \o NatToString(-i) ELSE NatToString(i)

\* fmt.Sprintf("%v", float64): exact for fractions with a terminating expansion
FloatToString(x) ==
    LET a == Abs(x[1])
        whole == (IF x[1] < 0 THEN "-" ELSE "") \o NatToString(a \div x[2])
        RECURSIVE FracDigits(_, _, _)
        FracDigits(r, d, k) ==
            IF r = 0 \/ k = 0 THEN ""
            ELSE NatToString((r * 10) \div d) \o FracDigits((r * 10) % d, d, k - 1)
    IN  IF a % x[2] = 0 THEN whole ELSE whole \o "." \o FracDigits(a % x[2], x[2], 17)

\* (*Node).ToString for the atoms that maybeCastNumbers converts
NodeToString(n) ==
    IF n.Type = "IntNT" THEN IntToString(n.Val) ELSE FloatToString(n.Val)

\* (*Node).toValue: the key of a node in an Object or a Set.  A Value is a
\* (DataType, Val) pair and is written here as one string.
toValue(n) ==
    CASE n.Type = "IntNT" -> "IntDT:" \o IntToString(n.Val)
      [] n.Type = "FloatNT" -> "FloatDT:" \o FloatToString(n.Val)
      [] n.Type \in {"StringNT", "IdentifierNT"} -> "StringDT:" \o n.Val
      [] n.Type = "BoolNT" -> IF n.Val THEN "BoolDT:true" ELSE "BoolDT:false"
      [] n.Type = "SuccessNT" -> "ResultDT:true"
      [] OTHER -> "ResultDT:false"

\* Go maps keyed by string
EmptyMap == [k \in {} |-> NilNode]
Has(m, k) == k \in DOMAIN m
Put(m, k, v) == [x \in (DOMAIN m) \cup {k} |-> IF x = k THEN v ELSE m[x]]

IsLambdaValue(n) == n.Type = "LambdaNT" /\ "ref" \in DOMAIN n

-----------------------------------------------------------------------------
(* Results of an evaluation: (res, err) and the heap after it *)

Ok(v, st) == [res |-> v, err |-> "", st |-> st]
Raise(msg, st) == [res |-> NilNode, err |-> msg, st |-> [st EXCEPT !.raised = TRUE]]
Panic(st) == [res |-> NilNode, err |-> PANIC, st |-> st]
Failed(r) == r.err # ""
NilRes(r) == [r EXCEPT !.res = NilNode]
Emit(st, e) == [st EXCEPT !.log = Append(@, e)]

\* newObject: the node of a new map holding val
newObject(val, st) ==
    Ok([Type |-> "ObjectNT", obj |-> Len(st.objs) + 1], [st EXCEPT !.objs = Append(@, val)])

\* newSet: the node of a new map from values to presence flags
newSet(val, st) ==
    Ok([Type |-> "SetNT", obj |-> Len(st.objs) + 1], [st EXCEPT !.objs = Append(@, val)])

-----------------------------------------------------------------------------
(* interpretUtils.go *)

\* isTruthy with every Int node truthy, 0 included
isTruthy_ZeroTruthy(n) ==
    CASE n.Type = "nil" -> FALSE
      [] n.Type = "SuccessNT" -> TRUE
      [] n.Type = "FailNT" -> FALSE
      [] n.Type = "FloatNT" -> ~FloatIsZero(n.Val)
      [] n.Type = "IntNT" -> TRUE
      [] n.Type = "BoolNT" -> n.Val
      [] n.Type = "StringNT" -> Len(n.Val) # 0
      [] n.Type = "NullNT" -> FALSE
      [] OTHER -> TRUE

isTruthy(n) ==
    CASE n.Type = "nil" -> FALSE
      [] n.Type = "SuccessNT" -> TRUE
      [] n.Type = "FailNT" -> FALSE
      [] n.Type = "FloatNT" -> ~FloatIsZero(n.Val)
      [] n.Type = "IntNT" -> n.Val # 0
      [] n.Type = "BoolNT" -> n.Val
      [] n.Type = "StringNT" -> Len(n.Val) # 0
      [] n.Type = "NullNT" -> FALSE
      [] OTHER -> TRUE

\* returns <<l, r, t>>
maybeCastNumbers(a, b) ==
    IF a.Type = "nil" \/ b.Type = "nil" THEN <<NilNode, NilNode, "ErrorNT">>
    ELSE IF a.Type = b.Type THEN <<a, b, a.Type>>
    ELSE CASE a.Type = "IntNT" ->
                IF b.Type = "FloatNT"
                THEN <<newFloat(IntToFloat(a.Val)), b, "FloatNT">>
                ELSE <<a, b, "ErrorNT">>
           [] a.Type = "FloatNT" ->
                IF b.Type = "IntNT"
                THEN <<a, newFloat(IntToFloat(b.Val)), "FloatNT">>
                ELSE <<a, b, "ErrorNT">>
           [] a.Type = "StringNT" ->
                IF b.Type \in {"IntNT", "FloatNT"}
                THEN <<a, newString(NodeToString(b)), "StringNT">>
                ELSE <<a, b, "ErrorNT">>
           [] OTHER -> <<a, b, "ErrorNT">>

\* returns <<equal, err>>
RECURSIVE evalEquality(_, _, _)
evalEquality(a, b, st) ==
    LET c == maybeCastNumbers(a, b)
        l == c[1]
        r == c[2]
        t == c[3]
        RECURSIVE evalEqualityList(_, _, _)
        evalEqualityList(as, rs, i) ==
            IF i > Len(as) THEN <<TRUE, "">>
            ELSE LET e == evalEquality(as[i], rs[i], st)
                 IN  IF ~e[1] \/ e[2] # "" THEN <<FALSE, e[2]>>
                     ELSE evalEqualityList(as, rs, i + 1)
    IN  CASE t \in {"IntNT", "FloatNT", "StringNT", "BoolNT"} -> <<l.Val = r.Val, "">>
          [] t = "ListNT" ->
                IF l.len # r.len THEN <<FALSE, "">>
                ELSE evalEqualityList(ListOf(a, st), ListOf(r, st), 1)
          [] t \in {"SuccessNT", "FailNT", "NullNT"} -> <<TRUE, "">>
          [] OTHER -> <<FALSE, "Cannot compare types">>

RECURSIVE resolveIdentifierFrom(_, _, _)
resolveIdentifierFrom(ident, e, st) ==
    IF e = 0 THEN Raise("is undefined", st)
    ELSE IF Has(st.envs[e].Consts, ident) THEN Ok(st.envs[e].Consts[ident], st)
    ELSE IF Has(st.envs[e].Vars, ident) THEN Ok(st.envs[e].Vars[ident], st)
    ELSE resolveIdentifierFrom(ident, st.envs[e].Parent, st)

resolveIdentifier(n, env, st) == resolveIdentifierFrom(n.Val, env, st)

\* newScope: the pointer of the new Environment, and the heap holding it
newScopeId(st) == Len(st.envs) + 1
newScope(parent, st) ==
    [st EXCEPT !.envs = Append(@, [Parent |-> parent, Consts |-> EmptyMap, Vars |-> EmptyMap])]

\* copyNode on a literal or an atom value: a new Node of the same Type and Val
copyNode(n) ==
    IF n.Type \in {"IntNT", "FloatNT", "BoolNT", "StringNT"}
    THEN [Type |-> n.Type, Val |-> n.Val]
    ELSE IF n.Type = "SetNT" THEN n
    ELSE [Type |-> n.Type]

\* copyNode on a lambda: a new Node with the same L, R, Func and Scope.
\* A lambda literal of the syntax tree has a nil Scope and no Func.
newNodeId(st) == Len(st.nodes) + 1
copyLambda(n, env, st) ==
    IF IsLambdaValue(n)
    THEN [st EXCEPT !.nodes = Append(@, st.nodes[n.ref]),
                    !.born = Append(@, st.born[n.ref])]
    ELSE [st EXCEPT !.nodes = Append(@, [L |-> n.L, R |-> n.R, Scope |-> 0, Func |-> ""]),
                    !.born = Append(@, env)]

\* returns <<p, a>>
countArgs(params, args) ==
    LET RECURSIVE countParams(_)
        countParams(param) ==
            IF param.Type = "nil" \/ (param.Val = "" /\ param.L.Type = "nil") THEN 0
            ELSE 1 + countParams(param.R)
        RECURSIVE countArgNodes(_)
        countArgNodes(arg) ==
            IF arg.Type = "nil" \/ arg.L.Type = "nil" THEN 0
            ELSE 1 + countArgNodes(arg.R)
    IN  <<countParams(params), countArgNodes(args)>>

\* assignArg: returns the heap, or panics (index out of range, nil argument)
assignArg(arg, param, scope, st) ==
    LET RECURSIVE assignListParam(_, _, _, _)
        assignListParam(ps, as, i, s) ==
            IF i > Len(ps) THEN [st |-> s, panic |-> FALSE]
            ELSE IF i > Len(as)
                 THEN \* line 329 binds FAIL, then line 331 indexes as[i] out of range
                      [st |-> [s EXCEPT !.envs[scope].Vars = Put(@, ps[i].Val, FAIL)],
                       panic |-> TRUE]
                 ELSE assignListParam(ps, as, i + 1,
                          [s EXCEPT !.envs[scope].Vars = Put(@, ps[i].Val, as[i])])
        RECURSIVE assignAllFail(_, _, _)
        assignAllFail(ps, i, s) ==
            IF i > Len(ps) THEN s
            ELSE assignAllFail(ps, i + 1, [s EXCEPT !.envs[scope].Vars = Put(@, ps[i].Val, FAIL)])
    IN
    IF param.Type = "nil" \/ (param.L.Type = "nil" /\ param.Val = "")
    THEN [st |-> st, panic |-> FALSE]
    ELSE IF param.Val # ""
    THEN [st |-> [st EXCEPT !.envs[scope].Vars = Put(@, param.Val, arg)], panic |-> FALSE]
    ELSE IF param.L.Type = "ListNT"
    THEN IF arg.Type = "nil" THEN [st |-> st, panic |-> TRUE]
         ELSE IF arg.Type # "ListNT"
         THEN [st |-> assignAllFail(param.L.Val, 1, st), panic |-> FALSE]
         ELSE assignListParam(param.L.Val, ListOf(arg, st), 1, st)
    ELSE [st |-> st, panic |-> FALSE]

\* iterateCollection: the items next() yields, in order (lists)
iterateCollection(n, st) == IF n.Type = "ListNT" THEN ListOf(n, st) ELSE <<>>

getByIndex(src, idxNode, st) ==
    IF idxNode.Type \notin {"IntNT", "FloatNT"} THEN Ok(FAIL, st)
    ELSE
    LET idx == IF idxNode.Type = "IntNT" THEN idxNode.Val ELSE FloatToInt(idxNode.Val)
        length == IF src.Type = "ListNT" THEN src.len ELSE Len(src.Val)
    IN  IF idx >= length THEN Ok(FAIL, st)
        ELSE IF idx < 0 /\ -idx > length THEN Ok(FAIL, st)
        ELSE IF idx < 0
        THEN \* line 457: src.Val.(List), a type assertion that a string fails
             IF src.Type = "ListNT" THEN Ok(ListOf(src, st)[length + idx + 1], st)
             ELSE Panic(st)
        ELSE IF src.Type = "StringNT"
        THEN Ok(newString(SubSeq(src.Val, idx + 1, idx + 1)), st)
        ELSE Ok(ListOf(src, st)[idx + 1], st)

\* The built-in functions of StdLib that the model binds in the root environment
typeofName(n) ==
    CASE n.Type = "LambdaNT" -> "Lambda"
      [] n.Type = "ListNT" -> "List"
      [] n.Type = "ObjectNT" -> "Object"
      [] n.Type \in {"SuccessNT", "FailNT"} -> "Result"
      [] n.Type = "FloatNT" -> "Float"
      [] n.Type = "IntNT" -> "Int"
      [] n.Type = "BoolNT" -> "Bool"
      [] n.Type = "StringNT" -> "String"
      [] OTHER -> "Null"

applyFunc(func, env, args, st) ==
    IF func \in {"add", "remove"}
    THEN IF Len(args) # 2 THEN Raise("Wrong number of arguments for " \o func, st)
         ELSE IF args[1].Type = "nil" THEN Panic(st)
         ELSE IF args[1].Type # "SetNT" THEN Ok(FAIL, st)
         ELSE IF args[2].Type = "nil" THEN Panic(st)
         ELSE \* set[args[1].toValue()] = true (add) or false (remove)
              Ok([Type |-> "SetNT", obj |-> args[1].obj],
                 [st EXCEPT !.objs[args[1].obj] = Put(@, toValue(args[2]), func = "add")])
    ELSE IF func = "append"
    THEN IF Len(args) # 2 THEN Raise("Wrong number of arguments for append", st)
         ELSE IF args[1].Type = "nil" THEN Panic(st)
         ELSE IF args[1].Type # "ListNT" THEN Ok(FAIL, st)
         ELSE LET a == goAppend(args[1], <<args[2]>>, st) IN Ok(newList(a.val), a.st)
    ELSE IF Len(args) # 1 THEN Raise("Wrong number of values for typeof", st)
    ELSE IF args[1].Type = "nil" THEN Panic(st)
    ELSE Ok(newString(typeofName(args[1])), st)

-----------------------------------------------------------------------------
(* interpret.go *)

RECURSIVE Interpret(_, _, _)

interpretStmt(root, env, st) ==
    LET RECURSIVE interpretStmtFrom(_, _, _)
        interpretStmtFrom(n, h, res) ==
            IF n.Type = "nil" THEN Ok(res, h)
            ELSE LET st1 == Emit(h, [ev |-> "stmt", d |-> h.depth, loop |-> 0])
                     r == IF n.L.Type = "StmtNT"
                          THEN Interpret(n.L, newScopeId(st1), newScope(env, st1))
                          ELSE Interpret(n.L, env, st1)
                 IN  IF Failed(r) THEN r
                     ELSE interpretStmtFrom(n.R, r.st, r.res)
    IN  interpretStmtFrom(root, st, NilNode)

\* An arithmetic in which the quotient of two integers is an integer
interpretMathOp_IntDiv(n, env, st) ==
    IF n.L.Type = "nil" THEN Raise("Missing first argument for operation", st)
    ELSE IF n.R.Type = "nil" THEN Raise("Missing second argument for operation", st)
    ELSE
    LET lhs == Interpret(n.L, env, st) IN
    IF Failed(lhs) THEN NilRes(lhs) ELSE
    LET rhs == Interpret(n.R, env, lhs.st) IN
    IF Failed(rhs) THEN NilRes(rhs) ELSE
    LET c == maybeCastNumbers(lhs.res, rhs.res)
        l == c[1]
        r == c[2]
        t == c[3]
        s == rhs.st
    IN  CASE n.Type = "AddNT" ->
               (CASE t = "IntNT" -> Ok(newInt(l.Val + r.Val), s)
                  [] t = "FloatNT" -> Ok(newFloat(FloatAdd(l.Val, r.Val)), s)
                  [] t = "StringNT" -> Ok(newString(l.Val \o r.Val), s)
                  [] t = "ListNT" ->
                       LET a == goAppend(l, ListOf(r, s), s) IN Ok(newList(a.val), a.st)
                  [] OTHER -> Ok(FAIL, s))
          [] n.Type = "SubtNT" ->
               (CASE t = "IntNT" -> Ok(newInt(l.Val - r.Val), s)
                  [] t = "FloatNT" -> Ok(newFloat(FloatSub(l.Val, r.Val)), s)
                  [] OTHER -> Ok(FAIL, s))
          [] n.Type = "DivNT" ->
               (CASE t = "IntNT" ->
                       IF r.Val = 0 THEN Ok(FAIL, s)
                       ELSE Ok(newInt(l.Val \div r.Val), s)
                  [] t = "FloatNT" ->
                       IF FloatIsZero(r.Val) THEN Ok(FAIL, s)
                       ELSE Ok(newFloat(FloatDiv(l.Val, r.Val)), s)
                  [] OTHER -> Ok(FAIL, s))
          [] n.Type = "MultNT" ->
               (CASE t = "IntNT" -> Ok(newInt(l.Val * r.Val), s)
                  [] t = "FloatNT" -> Ok(newFloat(FloatMul(l.Val, r.Val)), s)
                  [] OTHER -> Ok(FAIL, s))
          [] n.Type = "ModuloNT" ->
               (CASE t = "IntNT" ->
                       IF r.Val = 0 THEN Ok(FAIL, s) ELSE Ok(newInt(GoMod(l.Val, r.Val)), s)
                  [] OTHER -> Ok(FAIL, s))
          [] OTHER -> Raise("Unknown binary operator", s)

interpretMathOp(n, env, st) ==
    IF n.L.Type = "nil" THEN Raise("Missing first argument for operation", st)
    ELSE IF n.R.Type = "nil" THEN Raise("Missing second argument for operation", st)
    ELSE
    LET lhs == Interpret(n.L, env, st) IN
    IF Failed(lhs) THEN NilRes(lhs) ELSE
    LET rhs == Interpret(n.R, env, lhs.st) IN
    IF Failed(rhs) THEN NilRes(rhs) ELSE
    LET c == maybeCastNumbers(lhs.res, rhs.res)
        l == c[1]
        r == c[2]
        t == c[3]
        s == rhs.st
    IN  CASE n.Type = "AddNT" ->
               (CASE t = "IntNT" -> Ok(newInt(l.Val + r.Val), s)
                  [] t = "FloatNT" -> Ok(newFloat(FloatAdd(l.Val, r.Val)), s)
                  [] t = "StringNT" -> Ok(newString(l.Val \o r.Val), s)
                  [] t = "ListNT" ->
                       LET a == goAppend(l, ListOf(r, s), s) IN Ok(newList(a.val), a.st)
                  [] OTHER -> Ok(FAIL, s))
          [] n.Type = "SubtNT" ->
               (CASE t = "IntNT" -> Ok(newInt(l.Val - r.Val), s)
                  [] t = "FloatNT" -> Ok(newFloat(FloatSub(l.Val, r.Val)), s)
                  [] OTHER -> Ok(FAIL, s))
          [] n.Type = "DivNT" ->
               (CASE t = "IntNT" ->
                       IF r.Val = 0 THEN Ok(FAIL, s)
                       ELSE Ok(newFloat(FloatDiv(IntToFloat(l.Val), IntToFloat(r.Val))), s)
                  [] t = "FloatNT" ->
                       IF FloatIsZero(r.Val) THEN Ok(FAIL, s)
                       ELSE Ok(newFloat(FloatDiv(l.Val, r.Val)), s)
                  [] OTHER -> Ok(FAIL, s))
          [] n.Type = "MultNT" ->
               (CASE t = "IntNT" -> Ok(newInt(l.Val * r.Val), s)
                  [] t = "FloatNT" -> Ok(newFloat(FloatMul(l.Val, r.Val)), s)
                  [] OTHER -> Ok(FAIL, s))
          [] n.Type = "ModuloNT" ->
               (CASE t = "IntNT" ->
                       IF r.Val = 0 THEN Ok(FAIL, s) ELSE Ok(newInt(GoMod(l.Val, r.Val)), s)
                  [] OTHER -> Ok(FAIL, s))
          [] OTHER -> Raise("Unknown binary operator", s)

\* A fallback that replaces every falsy left operand
interpretLogicOp_FallbackFalsy(n, env, st) ==
    IF n.L.Type = "nil" THEN Raise("Missing first argument for operation", st)
    ELSE IF n.R.Type = "nil" THEN Raise("Missing second argument for operation", st)
    ELSE
    LET lhs == Interpret(n.L, env, st) IN
    IF Failed(lhs) THEN NilRes(lhs) ELSE
    LET rhs == Interpret(n.R, env, lhs.st) IN
    IF Failed(rhs) THEN NilRes(rhs) ELSE
    CASE n.Type = "LogicAndNT" ->
           IF isTruthy(lhs.res) THEN Ok(rhs.res, rhs.st) ELSE Ok(FalseNode, rhs.st)
      [] n.Type = "LogicOrNT" ->
           IF isTruthy(lhs.res) THEN Ok(lhs.res, rhs.st) ELSE Ok(rhs.res, rhs.st)
      [] n.Type = "FallbackNT" ->
           IF lhs.res.Type = "nil" THEN Panic(rhs.st)
           ELSE IF ~isTruthy(lhs.res) THEN Ok(rhs.res, rhs.st)
           ELSE Ok(lhs.res, rhs.st)
      [] OTHER -> Raise("Unknown logical operator", rhs.st)

interpretLogicOp(n, env, st) ==
    IF n.L.Type = "nil" THEN Raise("Missing first argument for operation", st)
    ELSE IF n.R.Type = "nil" THEN Raise("Missing second argument for operation", st)
    ELSE
    LET lhs == Interpret(n.L, env, st) IN
    IF Failed(lhs) THEN NilRes(lhs) ELSE
    LET rhs == Interpret(n.R, env, lhs.st) IN
    IF Failed(rhs) THEN NilRes(rhs) ELSE
    CASE n.Type = "LogicAndNT" ->
           IF isTruthy(lhs.res) THEN Ok(rhs.res, rhs.st) ELSE Ok(FalseNode, rhs.st)
      [] n.Type = "LogicOrNT" ->
           IF isTruthy(lhs.res) THEN Ok(lhs.res, rhs.st) ELSE Ok(rhs.res, rhs.st)
      [] n.Type = "FallbackNT" ->
           IF lhs.res.Type = "nil" THEN Panic(rhs.st)
           ELSE IF lhs.res.Type = "FailNT" THEN Ok(rhs.res, rhs.st)
           ELSE Ok(lhs.res, rhs.st)
      [] OTHER -> Raise("Unknown logical operator", rhs.st)

interpretComparison(n, env, st) ==
    IF n.L.Type = "nil" THEN Raise("Missing first argument for operation", st)
    ELSE IF n.R.Type = "nil" THEN Raise("Missing second argument for operation", st)
    ELSE
    LET lhs == Interpret(n.L, env, st) IN
    IF Failed(lhs) THEN NilRes(lhs) ELSE
    LET rhs == Interpret(n.R, env, lhs.st) IN
    IF Failed(rhs) THEN NilRes(rhs) ELSE
    LET s == rhs.st
        eq == evalEquality(lhs.res, rhs.res, s)
        c == maybeCastNumbers(lhs.res, rhs.res)
        l == c[1]
        r == c[2]
        t == c[3]
    IN  CASE n.Type = "EqualNT" ->
               IF eq[2] # "" THEN Ok(FAIL, s) ELSE Ok(newBool(eq[1]), s)
          [] n.Type = "NotEqualNT" ->
               IF eq[2] # "" THEN Ok(FAIL, s) ELSE Ok(newBool(~eq[1]), s)
          [] t = "IntNT" ->
               (CASE n.Type = "LessEqualNT" -> Ok(newBool(l.Val <= r.Val), s)
                  [] n.Type = "GreaterEqualNT" -> Ok(newBool(l.Val >= r.Val), s)
                  [] n.Type = "LessNT" -> Ok(newBool(l.Val < r.Val), s)
                  [] n.Type = "GreaterNT" -> Ok(newBool(l.Val > r.Val), s)
                  [] OTHER -> Ok(FAIL, s))
          [] t = "FloatNT" ->
               (CASE n.Type = "LessEqualNT" -> Ok(newBool(~FloatLess(r.Val, l.Val)), s)
                  [] n.Type = "GreaterEqualNT" -> Ok(newBool(~FloatLess(l.Val, r.Val)), s)
                  [] n.Type = "LessNT" -> Ok(newBool(FloatLess(l.Val, r.Val)), s)
                  [] n.Type = "GreaterNT" -> Ok(newBool(FloatLess(r.Val, l.Val)), s)
                  [] OTHER -> Ok(FAIL, s))
          [] OTHER -> Ok(FAIL, s)

interpretUnOp(n, env, st) ==
    IF n.R.Type = "nil" THEN Raise("Missing argument for unary operation", st)
    ELSE
    LET arg == Interpret(n.R, env, st) IN
    IF Failed(arg) THEN arg ELSE
    CASE n.Type = "LogicNotNT" -> Ok(newBool(~isTruthy(arg.res)), arg.st)
      [] arg.res.Type = "nil" -> Panic(arg.st)
      [] n.Type = "MaybeNT" ->
           IF arg.res.Type = "FailNT" THEN Ok(arg.res, arg.st) ELSE Ok(SUCCESS, arg.st)
      [] n.Type = "CardinalityNT" ->
           IF arg.res.Type = "ListNT" THEN Ok(newInt(arg.res.len), arg.st)
           ELSE IF arg.res.Type = "StringNT" THEN Ok(newInt(Len(arg.res.Val)), arg.st)
           ELSE IF arg.res.Type \in {"SetNT", "ObjectNT"}
           THEN Ok(newInt(Cardinality(DOMAIN arg.st.objs[arg.res.obj])), arg.st)
           ELSE Ok(FAIL, arg.st)
      [] n.Type = "UnaryNegNT" ->
           (CASE arg.res.Type = "IntNT" -> Ok(newInt(-arg.res.Val), arg.st)
              [] arg.res.Type = "FloatNT" ->
                   Ok(newFloat(<<-arg.res.Val[1], arg.res.Val[2]>>), arg.st)
              [] OTHER -> Ok(FAIL, arg.st))
      [] OTHER -> Raise("Unknown unary operator", arg.st)

interpretIf(n, env, st) ==
    LET condRes == Interpret(n.L, env, st)
        result == n.R
    IN  IF Failed(condRes) THEN NilRes(condRes)
        ELSE IF isTruthy(condRes.res)
        THEN IF result.Type = "ThenBranchNT"
             THEN Interpret(result.L, env, condRes.st)
             ELSE Interpret(result, env, condRes.st)
        ELSE IF result.Type = "ThenBranchNT"
             THEN Interpret(result.R, env, condRes.st)
             ELSE Ok(FAIL, condRes.st)

\* Fields of the Node a value points to: only lambda values have L, R, Scope or Func
LamL(n, st) == IF IsLambdaValue(n) THEN st.nodes[n.ref].L ELSE NilNode
LamR(n, st) == IF IsLambdaValue(n) THEN st.nodes[n.ref].R ELSE NilNode
LamScope(n, st) == IF IsLambdaValue(n) THEN st.nodes[n.ref].Scope ELSE 0
LamFunc(n, st) == IF IsLambdaValue(n) THEN st.nodes[n.ref].Func ELSE ""
LamRef(n) == IF IsLambdaValue(n) THEN n.ref ELSE 0

\* A declaration that does not look for an existing variable of the name
declareVar_SkipVars(n, env, st) ==
    LET val == Interpret(n.R, env, st) IN
    IF Failed(val) THEN NilRes(val)
    ELSE IF n.L.Type # "IdentifierNT" THEN Panic(val.st)
    ELSE
    LET ident == n.L.Val
        e == val.st.envs[env]
    IN  IF Has(e.Consts, ident) THEN Raise("is already defined", val.st)
        ELSE IF n.Type = "VarDeclNT"
        THEN Ok(SUCCESS, [val.st EXCEPT !.envs[env].Vars = Put(@, ident, val.res)])
        ELSE Ok(SUCCESS, [val.st EXCEPT !.envs[env].Consts = Put(@, ident, val.res)])

declareVar(n, env, st) ==
    LET val == Interpret(n.R, env, st) IN
    IF Failed(val) THEN NilRes(val)
    ELSE IF n.L.Type # "IdentifierNT" THEN Panic(val.st)
    ELSE
    LET ident == n.L.Val
        e == val.st.envs[env]
    IN  IF Has(e.Consts, ident) THEN Raise("is already defined", val.st)
        ELSE IF Has(e.Vars, ident) THEN Raise("is already defined", val.st)
        ELSE IF n.Type = "VarDeclNT"
        THEN Ok(SUCCESS, [val.st EXCEPT !.envs[env].Vars = Put(@, ident, val.res)])
        ELSE Ok(SUCCESS, [val.st EXCEPT !.envs[env].Consts = Put(@, ident, val.res)])

\* getNestedAssign: the assign function is the slot it closes over, the
\* backing array of the list and the index, or the map of the object and the key
getNestedAssign(assignee, env, st) ==
    LET fails(err, h) == [err |-> err, st |-> h, kind |-> "none", e |-> 0, ident |-> ""]
        raises(msg, h) == fails(msg, [h EXCEPT !.raised = TRUE])
        container == Interpret(assignee.L, env, st)
    IN
    IF Failed(container) THEN fails(container.err, container.st)
    ELSE IF container.res.Type = "nil" THEN fails(PANIC, container.st)
    ELSE IF container.res.Type = "ListNT"
    THEN LET idxNode == Interpret(assignee.R, env, container.st)
             length == container.res.len
         IN  IF Failed(idxNode) THEN fails(idxNode.err, idxNode.st)
             ELSE IF idxNode.res.Type = "nil" THEN fails(PANIC, idxNode.st)
             ELSE IF idxNode.res.Type \notin {"IntNT", "FloatNT"}
             THEN raises("Cannot assign to list index. Invalid index.", idxNode.st)
             ELSE LET i == IF idxNode.res.Type = "IntNT" THEN idxNode.res.Val
                           ELSE FloatToInt(idxNode.res.Val)
                      idx == IF i < 0 THEN i + length ELSE i
                  IN  IF idx >= length \/ idx < 0
                      THEN raises("Cannot assign to list. Index out of range.", idxNode.st)
                      ELSE [err |-> "", st |-> idxNode.st, kind |-> "list",
                            e |-> container.res.arr, ident |-> idx]
    ELSE IF container.res.Type = "ObjectNT"
    THEN IF assignee.Type = "FieldAccessNT"
         THEN [err |-> "", st |-> container.st, kind |-> "object",
               e |-> container.res.obj, ident |-> toValue(assignee.R)]
         ELSE LET key == Interpret(assignee.R, env, container.st)
              IN  IF Failed(key) THEN fails(key.err, key.st)
                  ELSE [err |-> "", st |-> key.st, kind |-> "object",
                        e |-> container.res.obj, ident |-> toValue(key.res)]
    ELSE raises("Invalid assignment target.", container.st)

\* A walk that does not look at the constants of a scope
RECURSIVE getAssignmentTargetFrom_SkipConsts(_, _, _)
getAssignmentTargetFrom_SkipConsts(ident, e, st) ==
    IF e = 0
    THEN [err |-> "Cannot assign to undefined variable",
          st |-> [st EXCEPT !.raised = TRUE], kind |-> "none", e |-> 0, ident |-> ident]
    ELSE IF Has(st.envs[e].Vars, ident)
    THEN [err |-> "", st |-> st, kind |-> "var", e |-> e, ident |-> ident]
    ELSE getAssignmentTargetFrom_SkipConsts(ident, st.envs[e].Parent, st)

\* getAssignmentTarget: the assign function is the pair (e, ident) it closes over
RECURSIVE getAssignmentTargetFrom(_, _, _)
getAssignmentTargetFrom(ident, e, st) ==
    IF e = 0
    THEN [err |-> "Cannot assign to undefined variable",
          st |-> [st EXCEPT !.raised = TRUE], kind |-> "none", e |-> 0, ident |-> ident]
    ELSE IF Has(st.envs[e].Consts, ident)
    THEN [err |-> "Cannot assign to constant variable",
          st |-> [st EXCEPT !.raised = TRUE], kind |-> "none", e |-> 0, ident |-> ident]
    ELSE IF Has(st.envs[e].Vars, ident)
    THEN [err |-> "", st |-> st, kind |-> "var", e |-> e, ident |-> ident]
    ELSE getAssignmentTargetFrom(ident, st.envs[e].Parent, st)

getAssignmentTarget(lhs, env, st) ==
    IF lhs.L.Type = "nil" /\ lhs.Type = "IdentifierNT"
    THEN getAssignmentTargetFrom(lhs.Val, env, st)
    ELSE getNestedAssign(lhs, env, st)

\* An assignment that writes a variable of the current scope instead of the
\* one the name resolves to
assignVar_Local(n, env, st) ==
    LET assign == getAssignmentTarget(n.L, env, st) IN
    IF assign.err # "" THEN [res |-> NilNode, err |-> assign.err, st |-> assign.st]
    ELSE
    LET val == Interpret(n.R, env, assign.st) IN
    IF Failed(val) THEN NilRes(val)
    ELSE Ok(SUCCESS, [val.st EXCEPT !.envs[env].Vars = Put(@, assign.ident, val.res)])

assignVar(n, env, st) ==
    LET assign == getAssignmentTarget(n.L, env, st) IN
    IF assign.err # "" THEN [res |-> NilNode, err |-> assign.err, st |-> assign.st]
    ELSE
    LET val == Interpret(n.R, env, assign.st) IN
    IF Failed(val) THEN NilRes(val)
    ELSE \* assign(val)
         CASE assign.kind = "list" ->
                Ok(SUCCESS, [val.st EXCEPT !.arrs[assign.e][assign.ident + 1] = val.res])
           [] assign.kind = "object" ->
                Ok(SUCCESS, [val.st EXCEPT !.objs[assign.e] = Put(@, assign.ident, val.res)])
           [] OTHER ->
                Ok(SUCCESS, [val.st EXCEPT !.envs[assign.e].Vars = Put(@, assign.ident, val.res)])

interpretFunctionBody(start, env, st) ==
    LET RECURSIVE interpretFunctionBodyFrom(_, _, _)
        interpretFunctionBodyFrom(n, h, res) ==
            IF n.Type = "nil" THEN Ok(res, h)
            ELSE LET st1 == Emit(h, [ev |-> "stmt", d |-> h.depth, loop |-> 0])
                     r == IF n.L.Type = "StmtNT"
                          THEN Interpret(n.L, newScopeId(st1), newScope(env, st1))
                          ELSE Interpret(n.L, env, st1)
                 IN  IF Failed(r) THEN r
                     ELSE IF r.res.Type = "nil" THEN Panic(r.st)
                     ELSE IF r.res.Type = "ReturnStmtNT" THEN Ok(r.res.R, r.st)
                     ELSE interpretFunctionBodyFrom(n.R, r.st, r.res)
    IN  interpretFunctionBodyFrom(start, st, NilNode)

\* lines 466-473: the arguments of a built-in, evaluated in the caller's environment
RECURSIVE evalArgs(_, _, _, _)
evalArgs(arg, env, st, acc) ==
    IF arg.Type = "nil" \/ arg.L.Type = "nil" THEN [args |-> acc, err |-> "", st |-> st]
    ELSE LET val == Interpret(arg.L, env, st)
         IN  IF Failed(val) THEN [args |-> acc, err |-> val.err, st |-> val.st]
             ELSE evalArgs(arg.R, env, val.st, Append(acc, val.res))

\* lines 499-509: assign arguments to function scope
RECURSIVE bindArgs(_, _, _, _, _)
bindArgs(param, arg, env, scope, st) ==
    IF param.Type = "nil" \/ (param.Val = "" /\ param.L.Type = "nil")
       \/ arg.Type = "nil" \/ arg.L.Type = "nil"
    THEN [err |-> "", st |-> st]
    ELSE LET val == Interpret(arg.L, env, st)
         IN  IF Failed(val) THEN [err |-> val.err, st |-> val.st]
             ELSE LET a == assignArg(val.res, param, scope, val.st)
                  IN  IF a.panic THEN [err |-> PANIC, st |-> a.st]
                      ELSE bindArgs(param.R, arg.R, env, scope, a.st)

\* A call that leaves the Scope of a returned lambda as it was
callBody_NoCapture(lambda, env, parent, scope, st) ==
    LET body == LamR(lambda, st) IN
    IF body.Type = "nil" THEN Panic(st)
    ELSE
    LET s2 == Emit([st EXCEPT !.depth = @ + 1],
                   [ev |-> "call", lam |-> LamRef(lambda), caller |-> env,
                    parent |-> parent, scope |-> scope, d |-> st.depth + 1])
        r == IF body.Type = "StmtNT"
             THEN interpretFunctionBody(body, scope, s2)
             ELSE Interpret(body, scope, s2)
        s3 == Emit([r.st EXCEPT !.depth = @ - 1],
                   [ev |-> "exit", d |-> st.depth + 1, val |-> r.res, err |-> r.err])
    IN  IF Failed(r) THEN [r EXCEPT !.st = s3]
        ELSE IF r.res.Type = "nil" THEN Panic(s3)
        ELSE Ok(r.res, s3)

\* lines 511-525: run the body in the call scope, then capture the scope
callBody(lambda, env, parent, scope, st) ==
    LET body == LamR(lambda, st) IN
    IF body.Type = "nil" THEN Panic(st)
    ELSE
    LET s2 == Emit([st EXCEPT !.depth = @ + 1],
                   [ev |-> "call", lam |-> LamRef(lambda), caller |-> env,
                    parent |-> parent, scope |-> scope, d |-> st.depth + 1])
        r == IF body.Type = "StmtNT"
             THEN interpretFunctionBody(body, scope, s2)
             ELSE Interpret(body, scope, s2)
        s3 == Emit([r.st EXCEPT !.depth = @ - 1],
                   [ev |-> "exit", d |-> st.depth + 1, val |-> r.res, err |-> r.err])
    IN  IF Failed(r) THEN [r EXCEPT !.st = s3]
        ELSE IF r.res.Type = "nil" THEN Panic(s3)
        ELSE IF r.res.Type = "LambdaNT"
        THEN Ok(r.res, [s3 EXCEPT !.nodes[r.res.ref].Scope = scope])
        ELSE Ok(r.res, s3)

interpretCall(n, env, st) ==
    LET callee == n.L
        lam == IF callee.Type = "IdentifierNT"
               THEN resolveIdentifier(callee, env, st)
               ELSE Interpret(callee, env, st)
    IN
    IF Failed(lam) THEN NilRes(lam)
    ELSE IF lam.res.Type = "nil" THEN Panic(lam.st)
    ELSE
    LET lambda == lam.res
        s0 == lam.st
    IN
    IF LamFunc(lambda, s0) # ""
    THEN LET as == evalArgs(n.R, env, s0, <<>>)
         IN  IF as.err # "" THEN [res |-> NilNode, err |-> as.err, st |-> as.st]
             ELSE applyFunc(LamFunc(lambda, s0), env, as.args, as.st)
    ELSE
    LET parent == IF LamScope(lambda, s0) # 0 THEN LamScope(lambda, s0) ELSE env
        scope == newScopeId(s0)
        s1 == newScope(parent, s0)
        cnt == countArgs(LamL(lambda, s0), n.R)
    IN
    IF cnt[1] > cnt[2] THEN Raise("Too few arguments provided to function", s1)
    ELSE IF cnt[1] < cnt[2] THEN Raise("Too many arguments provided to function", s1)
    ELSE
    LET b == bindArgs(LamL(lambda, s0), n.R, env, scope, s1) IN
    IF b.err # "" THEN [res |-> NilNode, err |-> b.err, st |-> b.st]
    ELSE callBody(lambda, env, parent, scope, b.st)

\* The call that interpretMap, interpretWhere, interpretFind and interpretPipe build
synthCall(lambda, arg) ==
    [Type |-> "CallNT", Val |-> "", L |-> lambda,
     R |-> [Type |-> "ArgNT", Val |-> "", L |-> arg, R |-> NilNode]]

applyLambda(lambda, item, val, env, st) ==
    IF LamFunc(lambda, st) # ""
    THEN applyFunc(LamFunc(lambda, st), env, <<item>>, st)
    ELSE Interpret(synthCall(lambda, val), env, st)

setIndex(env, i, st) == [st EXCEPT !.envs[env].Consts = Put(@, "index", newInt(i))]
clearIndex(env, st) == [st EXCEPT !.envs[env].Consts = Put(@, "index", NilNode)]
clearUnderscoreIndex(env, st) ==
    [st EXCEPT !.envs[env].Consts = Put(Put(@, "_", NilNode), "index", NilNode)]

\* lines 547-571 and the like: the left operand and the callee of map, where, find, |>
resolveCallee(callee, env, st) ==
    IF callee.Type = "IdentifierNT"
    THEN resolveIdentifier(callee, env, st)
    ELSE Interpret(callee, env, st)

interpretMap(n, env, st) ==
    LET RECURSIVE mapLoop(_, _, _, _, _, _)
        mapLoop(items, i, lambda, env_, st_, resList) ==
            IF i > Len(items) THEN [err |-> "", st |-> st_, list |-> resList]
            ELSE LET old == Interpret(items[i], env_, st_)
                 IN  IF Failed(old) THEN [err |-> old.err, st |-> old.st, list |-> resList]
                     ELSE LET new == applyLambda(lambda, items[i], old.res, env_,
                                                 setIndex(env_, i - 1, old.st))
                          IN  \* the error of the call is never read (lines 587-602)
                              IF new.err = PANIC THEN [err |-> PANIC, st |-> new.st, list |-> resList]
                              ELSE LET a == goAppend(resList, <<new.res>>, new.st)
                                   IN  mapLoop(items, i + 1, lambda, env_, a.st, a.val)
    IN
    LET lhs == Interpret(n.L, env, st) IN
    IF Failed(lhs) THEN NilRes(lhs)
    ELSE IF lhs.res.Type = "nil" THEN Panic(lhs.st)
    ELSE IF lhs.res.Type = "FailNT" \/ lhs.res.Type \notin {"ListNT", "SetNT"} THEN Ok(FAIL, lhs.st)
    ELSE
    LET lam == resolveCallee(n.R, env, lhs.st) IN
    IF Failed(lam) THEN NilRes(lam)
    ELSE IF lam.res.Type = "nil" THEN Panic(lam.st)
    ELSE IF lam.res.Type # "LambdaNT" THEN Ok(FAIL, lam.st)
    ELSE
    LET m == mapLoop(iterateCollection(lhs.res, lam.st), 1, lam.res, env, lam.st,
                     [arr |-> 0, len |-> 0]) IN
    IF m.err # "" THEN [res |-> NilNode, err |-> m.err, st |-> m.st]
    ELSE Ok(newList(m.list), clearUnderscoreIndex(env, m.st))

interpretWhere(n, env, st) ==
    LET RECURSIVE whereLoop(_, _, _, _, _, _)
        whereLoop(items, i, lambda, env_, st_, resList) ==
            IF i > Len(items) THEN [err |-> "", st |-> st_, list |-> resList]
            ELSE LET val == Interpret(items[i], env_, st_)
                 IN  IF Failed(val) THEN [err |-> val.err, st |-> val.st, list |-> resList]
                     ELSE LET result == applyLambda(lambda, items[i], val.res, env_,
                                                    setIndex(env_, i - 1, val.st))
                          IN  IF Failed(result)
                              THEN [err |-> result.err, st |-> result.st, list |-> resList]
                              ELSE IF isTruthy(result.res)
                              THEN LET a == goAppend(resList, <<val.res>>, result.st)
                                   IN  whereLoop(items, i + 1, lambda, env_, a.st, a.val)
                              ELSE whereLoop(items, i + 1, lambda, env_, result.st, resList)
    IN
    LET lhs == Interpret(n.L, env, st) IN
    IF Failed(lhs) THEN NilRes(lhs)
    ELSE IF lhs.res.Type = "nil" THEN Panic(lhs.st)
    ELSE IF lhs.res.Type = "FailNT" \/ lhs.res.Type \notin {"ListNT", "SetNT"} THEN Ok(FAIL, lhs.st)
    ELSE
    LET lam == resolveCallee(n.R, env, lhs.st) IN
    IF Failed(lam) THEN NilRes(lam)
    ELSE IF lam.res.Type = "nil" THEN Panic(lam.st)
    ELSE IF lam.res.Type # "LambdaNT" THEN Ok(FAIL, lam.st)
    ELSE
    LET w == whereLoop(iterateCollection(lhs.res, lam.st), 1, lam.res, env, lam.st,
                       [arr |-> 0, len |-> 0]) IN
    IF w.err # "" THEN [res |-> NilNode, err |-> w.err, st |-> w.st]
    ELSE Ok(newList(w.list), clearUnderscoreIndex(env, w.st))

interpretPipe(n, env, st) ==
    LET lhs == Interpret(n.L, env, st) IN
    IF Failed(lhs) THEN NilRes(lhs)
    ELSE IF lhs.res.Type = "nil" THEN Panic(lhs.st)
    ELSE IF lhs.res.Type = "FailNT" THEN lhs
    ELSE
    LET lam == resolveCallee(n.R, env, lhs.st) IN
    IF Failed(lam) THEN NilRes(lam)
    ELSE IF lam.res.Type = "nil" THEN Panic(lam.st)
    ELSE applyLambda(lam.res, lhs.res, lhs.res, env, lam.st)

interpretFind(n, env, st) ==
    LET RECURSIVE findLoop(_, _, _, _, _)
        findLoop(items, i, lambda, env_, st_) ==
            IF i > Len(items) THEN Ok(FAIL, clearUnderscoreIndex(env_, st_))
            ELSE LET val == Interpret(items[i], env_, st_)
                 IN  IF Failed(val) THEN NilRes(val)
                     ELSE LET result == applyLambda(lambda, items[i], val.res, env_,
                                                    setIndex(env_, i - 1, val.st))
                          IN  IF Failed(result) THEN NilRes(result)
                              ELSE IF isTruthy(result.res)
                              THEN Ok(items[i], clearUnderscoreIndex(env_, result.st))
                              ELSE findLoop(items, i + 1, lambda, env_, result.st)
    IN
    LET lhs == Interpret(n.L, env, st) IN
    IF Failed(lhs) THEN NilRes(lhs)
    ELSE IF lhs.res.Type = "nil" THEN Panic(lhs.st)
    ELSE IF lhs.res.Type = "FailNT" THEN lhs
    ELSE
    LET lam == resolveCallee(n.R, env, lhs.st) IN
    IF Failed(lam) THEN NilRes(lam)
    ELSE IF lam.res.Type = "nil" THEN Panic(lam.st)
    ELSE IF LamFunc(lam.res, lam.st) # ""
    THEN applyFunc(LamFunc(lam.res, lam.st), env, <<lhs.res>>, lam.st)
    ELSE findLoop(iterateCollection(lhs.res, lam.st), 1, lam.res, env, lam.st)

\* An iteration in which break only ends the iteration
RECURSIVE whileBody_BreakAsContinue(_, _, _, _, _)
whileBody_BreakAsContinue(n, scope, st, res, id) ==
    IF n.Type = "nil" THEN [res |-> res, err |-> "", st |-> st, ctl |-> "next"]
    ELSE LET st1 == Emit(st, [ev |-> "stmt", d |-> st.depth, loop |-> id])
             r == IF n.Type = "StmtNT"
                  THEN Interpret(n.L, scope, st1)
                  ELSE Interpret(n, scope, st1)
         IN  IF Failed(r) THEN [res |-> NilNode, err |-> r.err, st |-> r.st, ctl |-> "err"]
             ELSE IF r.res.Type = "nil"
             THEN [res |-> NilNode, err |-> PANIC, st |-> r.st, ctl |-> "err"]
             ELSE IF r.res.Type = "BreakNT"
             THEN [res |-> r.res, err |-> "", ctl |-> "next",
                   st |-> Emit(r.st, [ev |-> "break", loop |-> id, kind |-> "while"])]
             ELSE IF r.res.Type = "ContinueNT"
             THEN [res |-> r.res, err |-> "", ctl |-> "next",
                   st |-> Emit(r.st, [ev |-> "continue", loop |-> id, kind |-> "while"])]
             ELSE IF r.res.Type = "ReturnStmtNT"
             THEN [res |-> r.res.R, err |-> "", st |-> r.st, ctl |-> "return"]
             ELSE whileBody_BreakAsContinue(n.R, scope, r.st, r.res, id)

\* An iteration whose statements run in the environment of the loop itself
RECURSIVE whileBody_LoopEnv(_, _, _, _, _)
whileBody_LoopEnv(n, scope, st, res, id) ==
    IF n.Type = "nil" THEN [res |-> res, err |-> "", st |-> st, ctl |-> "next"]
    ELSE LET st1 == Emit(st, [ev |-> "stmt", d |-> st.depth, loop |-> id])
             r == IF n.Type = "StmtNT"
                  THEN Interpret(n.L, st.envs[scope].Parent, st1)
                  ELSE Interpret(n, st.envs[scope].Parent, st1)
         IN  IF Failed(r) THEN [res |-> NilNode, err |-> r.err, st |-> r.st, ctl |-> "err"]
             ELSE IF r.res.Type = "nil"
             THEN [res |-> NilNode, err |-> PANIC, st |-> r.st, ctl |-> "err"]
             ELSE IF r.res.Type = "BreakNT"
             THEN [res |-> r.res, err |-> "", ctl |-> "stop",
                   st |-> Emit(r.st, [ev |-> "break", loop |-> id, kind |-> "while"])]
             ELSE IF r.res.Type = "ContinueNT"
             THEN [res |-> r.res, err |-> "", ctl |-> "next",
                   st |-> Emit(r.st, [ev |-> "continue", loop |-> id, kind |-> "while"])]
             ELSE IF r.res.Type = "ReturnStmtNT"
             THEN [res |-> r.res.R, err |-> "", st |-> r.st, ctl |-> "return"]
             ELSE whileBody_LoopEnv(n.R, scope, r.st, r.res, id)

\* lines 909-933: the statements of one iteration of a while body.
\* ctl: "next" (body done, or continue), "stop" (break), "return", "err"
RECURSIVE whileBody(_, _, _, _, _)
whileBody(n, scope, st, res, id) ==
    IF n.Type = "nil" THEN [res |-> res, err |-> "", st |-> st, ctl |-> "next"]
    ELSE LET st1 == Emit(st, [ev |-> "stmt", d |-> st.depth, loop |-> id])
             r == IF n.Type = "StmtNT"
                  THEN Interpret(n.L, scope, st1)
                  ELSE Interpret(n, scope, st1)
         IN  IF Failed(r) THEN [res |-> NilNode, err |-> r.err, st |-> r.st, ctl |-> "err"]
             ELSE IF r.res.Type = "nil"
             THEN [res |-> NilNode, err |-> PANIC, st |-> r.st, ctl |-> "err"]
             ELSE IF r.res.Type = "BreakNT"
             THEN [res |-> r.res, err |-> "", ctl |-> "stop",
                   st |-> Emit(r.st, [ev |-> "break", loop |-> id, kind |-> "while"])]
             ELSE IF r.res.Type = "ContinueNT"
             THEN [res |-> r.res, err |-> "", ctl |-> "next",
                   st |-> Emit(r.st, [ev |-> "continue", loop |-> id, kind |-> "while"])]
             ELSE IF r.res.Type = "ReturnStmtNT"
             THEN [res |-> r.res.R, err |-> "", st |-> r.st, ctl |-> "return"]
             ELSE whileBody(n.R, scope, r.st, r.res, id)

interpretWhile(stmt, env, st) ==
    LET RECURSIVE whileLoop(_, _, _, _, _)
        whileLoop(stmt_, env_, st_, res, id) ==
            LET cond == Interpret(stmt_.L, env_, Emit(st_, [ev |-> "cond", loop |-> id])) IN
            IF Failed(cond) THEN NilRes(cond)
            ELSE IF ~isTruthy(cond.res) THEN Ok(res, cond.st)
            ELSE
            LET b == whileBody(stmt_.R, newScopeId(cond.st), newScope(env_, cond.st), res, id) IN
            CASE b.ctl = "err" -> [res |-> NilNode, err |-> b.err, st |-> b.st]
              [] b.ctl = "return" -> Ok(b.res, b.st)
              [] b.ctl = "stop" -> Ok(b.res, b.st)
              [] OTHER -> whileLoop(stmt_, env_, b.st, b.res, id)
    IN
    LET id == st.nextId
        r == whileLoop(stmt, env, [st EXCEPT !.nextId = @ + 1], NilNode, id)
    IN  [r EXCEPT !.st = Emit(@, [ev |-> "loopexit", loop |-> id])]

\* lines 965-994: the statements of one iteration of a for body.
\* ctl: "next" (body done), "stop" (break), "return", "err"
interpretFor(stmt, env, st) ==
    LET RECURSIVE forBody(_, _, _, _, _)
        forBody(n, scope, st_, res, id) ==
            IF n.Type = "nil" THEN [res |-> res, err |-> "", st |-> st_, ctl |-> "next"]
            ELSE LET st1 == Emit(st_, [ev |-> "stmt", d |-> st_.depth, loop |-> id])
                     r == IF n.Type = "StmtNT"
                          THEN Interpret(n.L, scope, st1)
                          ELSE Interpret(n, scope, st1)
                 IN  IF Failed(r) THEN [res |-> r.res, err |-> r.err, st |-> r.st, ctl |-> "err"]
                     ELSE IF r.res.Type = "nil"
                     THEN [res |-> NilNode, err |-> PANIC, st |-> r.st, ctl |-> "err"]
                     ELSE IF r.res.Type = "BreakNT"
                     THEN [res |-> r.res, err |-> "", ctl |-> "stop",
                           st |-> Emit(r.st, [ev |-> "break", loop |-> id, kind |-> "for"])]
                     ELSE IF r.res.Type = "ReturnStmtNT"
                     THEN [res |-> r.res.R, err |-> "", st |-> r.st, ctl |-> "return"]
                     ELSE IF r.res.Type = "ContinueNT"
                     THEN \* line 992: continue resumes the statement loop
                          forBody(n.R, scope,
                                  Emit(r.st, [ev |-> "continue", loop |-> id, kind |-> "for"]),
                                  r.res, id)
                     ELSE forBody(n.R, scope, r.st, r.res, id)
        RECURSIVE forLoop(_, _, _, _, _, _, _, _)
        forLoop(items, i, iter, stmt_, env_, st_, res, id) ==
            IF i > Len(items) THEN Ok(res, clearIndex(env_, st_))
            ELSE
            LET scope == newScopeId(st_)
                s1 == newScope(env_, Emit(st_, [ev |-> "next", loop |-> id, i |-> i - 1]))
                s2 == [s1 EXCEPT !.envs[scope].Consts =
                                     Put(Put(@, iter, items[i]), "index", newInt(i - 1))]
                b == forBody(stmt_.R, scope, s2, res, id)
            IN  CASE b.ctl = "err" -> [res |-> b.res, err |-> b.err, st |-> b.st]
                  [] b.ctl = "return" -> Ok(b.res, b.st)
                  [] b.ctl = "stop" -> Ok(b.res, clearIndex(env_, b.st))
                  [] OTHER -> forLoop(items, i + 1, iter, stmt_, env_, b.st, b.res, id)
    IN
    LET iterator == stmt.L.L
        src == Interpret(stmt.L.R, env, st)
    IN
    IF Failed(src) THEN NilRes(src)
    ELSE IF src.res.Type = "nil" THEN Panic(src.st)
    ELSE IF src.res.Type \notin {"ListNT", "ObjectNT", "SetNT"} THEN Ok(FAIL, src.st)
    ELSE IF iterator.Type # "IdentifierNT" THEN Panic(src.st)
    ELSE
    LET id == src.st.nextId
        r == forLoop(iterateCollection(src.res, src.st), 1, iterator.Val, stmt, env,
                     [src.st EXCEPT !.nextId = @ + 1], NilNode, id)
    IN  [r EXCEPT !.st = Emit(@, [ev |-> "loopexit", loop |-> id])]

interpretList(n, env, st) ==
    LET RECURSIVE interpretListFrom(_, _, _, _, _)
        interpretListFrom(ms, i, env_, st_, list) ==
            IF i > Len(ms) THEN Ok(newList(list), st_)
            ELSE IF ms[i].Type \in {"SplatNT", "RangeNT", "MapNT", "WhereNT"}
            THEN LET arg == IF ms[i].Type = "SplatNT"
                            THEN Interpret(ms[i].R, env_, st_)
                            ELSE Interpret(ms[i], env_, st_)
                 IN  IF Failed(arg) THEN NilRes(arg)
                     ELSE IF arg.res.Type = "nil" THEN Panic(arg.st)
                     ELSE LET a == IF arg.res.Type = "ListNT"
                                   THEN goAppend(list, ListOf(arg.res, arg.st), arg.st)
                                   ELSE goAppend(list, <<FAIL>>, arg.st)
                          IN  interpretListFrom(ms, i + 1, env_, a.st, a.val)
            ELSE LET val == Interpret(ms[i], env_, st_)
                 IN  IF Failed(val) THEN NilRes(val)
                     ELSE LET a == goAppend(list, <<val.res>>, val.st)
                          IN  interpretListFrom(ms, i + 1, env_, a.st, a.val)
    IN
    interpretListFrom(ListOf(n, st), 1, env, st, [arr |-> 0, len |-> 0])

interpretBracketAccess(n, env, st) ==
    LET src == Interpret(n.L, env, st) IN
    IF Failed(src) THEN NilRes(src) ELSE
    LET accessor == Interpret(n.R, env, src.st) IN
    IF Failed(accessor) THEN NilRes(accessor)
    ELSE IF src.res.Type = "nil" \/ accessor.res.Type = "nil" THEN Panic(accessor.st)
    ELSE IF src.res.Type \in {"ListNT", "StringNT"}
    THEN getByIndex(src.res, accessor.res, accessor.st)
    ELSE IF src.res.Type = "ObjectNT"
    THEN \* getByName
         LET obj == accessor.st.objs[src.res.obj]
             key == toValue(accessor.res)
         IN  IF key \in DOMAIN obj THEN Ok(obj[key], accessor.st) ELSE Ok(FAIL, accessor.st)
    ELSE Ok(FAIL, accessor.st)

interpretListSlice(n, env, st) ==
    LET src == Interpret(n.L, env, st) IN
    IF Failed(src) THEN NilRes(src)
    ELSE IF src.res.Type = "nil" THEN Panic(src.st)
    ELSE IF src.res.Type \notin {"ListNT", "StringNT"} THEN Ok(FAIL, src.st)
    ELSE
    LET startNode == n.R.L
        endNode == n.R.R
        length == IF src.res.Type = "ListNT" THEN src.res.len ELSE Len(src.res.Val)
    IN
    IF startNode.Type = "nil" /\ endNode.Type = "nil" THEN Interpret(src.res, env, src.st)
    ELSE
    LET startVal == IF startNode.Type = "nil" THEN Ok(newInt(0), src.st)
                    ELSE Interpret(startNode, env, src.st)
    IN
    IF Failed(startVal) THEN NilRes(startVal)
    ELSE IF startVal.res.Type = "nil" THEN Panic(startVal.st)
    ELSE IF startVal.res.Type \notin {"IntNT", "FloatNT"} THEN Ok(FAIL, startVal.st)
    ELSE
    LET endVal == IF endNode.Type = "nil" THEN Ok(newInt(length), startVal.st)
                  ELSE Interpret(endNode, env, startVal.st)
    IN
    IF Failed(endVal) THEN NilRes(endVal)
    ELSE IF endVal.res.Type = "nil" THEN Panic(endVal.st)
    ELSE IF endVal.res.Type \notin {"IntNT", "FloatNT"} THEN Ok(FAIL, endVal.st)
    ELSE
    LET start == IF startVal.res.Type = "IntNT" THEN startVal.res.Val
                 ELSE FloatToInt(startVal.res.Val)
        end == IF endVal.res.Type = "IntNT" THEN endVal.res.Val
               ELSE FloatToInt(endVal.res.Val)
        s == endVal.st
    IN
    IF src.res.Type = "StringNT"
    THEN LET e == IF end > length THEN length ELSE end
             b == IF start > e THEN e ELSE start
         IN  \* src[b:e] panics unless 0 <= b <= e <= len(src)
             IF b < 0 THEN Panic(s)
             ELSE Ok(newString(SubSeq(src.res.Val, b + 1, e)), s)
    ELSE
    LET items == ListOf(src.res, s)
        RECURSIVE copyFrom(_, _, _)
        \* lines 889-891: for i := start; i < end && i < len(src); i++
        copyFrom(i, list, h) ==
            IF ~(i < end /\ i < length) THEN Ok(newList(list), h)
            ELSE IF i < 0 THEN Panic(h)
            ELSE LET a == goAppend(list, <<items[i + 1]>>, h)
                 IN  copyFrom(i + 1, a.val, a.st)
    IN  copyFrom(start, [arr |-> 0, len |-> 0], s)

interpretIn(n, env, st) ==
    LET item == Interpret(n.L, env, st) IN
    IF Failed(item) THEN NilRes(item) ELSE
    LET container == Interpret(n.R, env, item.st) IN
    IF Failed(container) THEN NilRes(container)
    ELSE IF container.res.Type = "nil" THEN Panic(container.st)
    ELSE IF container.res.Type = "ListNT"
    THEN LET list == ListOf(container.res, container.st)
         IN  IF Len(list) = 0 THEN Ok(FalseNode, container.st)
             ELSE IF item.res.Type = "nil" THEN Panic(container.st)
             ELSE Ok(newBool(\E i \in 1..Len(list) :
                                 evalEquality(item.res, list[i], container.st)[1]),
                     container.st)
    ELSE IF container.res.Type = "SetNT"
    THEN IF item.res.Type = "nil" THEN Panic(container.st)
         ELSE LET set == container.st.objs[container.res.obj]
                  v == toValue(item.res)
              IN  Ok(newBool(Has(set, v) /\ set[v]), container.st)
    ELSE Ok(FAIL, container.st)

interpretSetItem(n, env, st) ==
    LET \* set[m] = true for every m of ms
        putAll(set, ms) == [x \in (DOMAIN set) \cup ms |-> IF x \in ms THEN TRUE ELSE set[x]]
        RECURSIVE items(_, _, _)
        items(curr, set, h) ==
            IF curr.Type = "nil" THEN newSet(set, h)
            ELSE IF curr.L.Type = "nil" THEN Panic(h)
            ELSE IF curr.L.Type \in {"SplatNT", "RangeNT", "MapNT", "WhereNT"}
            THEN LET arg == IF curr.L.Type = "SplatNT"
                            THEN Interpret(curr.L.R, env, h)
                            ELSE Interpret(curr.L, env, h)
                 IN  IF Failed(arg) THEN NilRes(arg)
                     ELSE IF arg.res.Type = "nil" THEN Panic(arg.st)
                     ELSE items(curr.R,
                                CASE arg.res.Type = "ListNT" ->
                                       LET l == ListOf(arg.res, arg.st)
                                       IN  putAll(set, {toValue(l[i]) : i \in 1..Len(l)})
                                  [] arg.res.Type = "SetNT" ->
                                       LET s == arg.st.objs[arg.res.obj]
                                       IN  putAll(set, {m \in DOMAIN s : s[m]})
                                  [] OTHER -> Put(set, toValue(FAIL), TRUE),
                                arg.st)
            ELSE LET val == Interpret(curr.L, env, h)
                 IN  IF Failed(val) THEN NilRes(val)
                     ELSE IF val.res.Type = "nil" THEN Panic(val.st)
                     ELSE items(curr.R, Put(set, toValue(val.res), TRUE), val.st)
    IN  items(n, [k \in {} |-> TRUE], st)

interpretObjectItem(n, env, st) ==
    LET RECURSIVE items(_, _, _)
        items(curr, obj, h) ==
            IF curr.Type = "nil" THEN newObject(obj, h)
            ELSE
            LET node == curr.L IN
            IF node.Type = "KVPairNT"
            THEN LET key == IF node.L.Type # "IdentifierNT"
                            THEN Interpret(node.L, env, h)
                            ELSE Ok(node.L, h)
                 IN  IF Failed(key) THEN NilRes(key) ELSE
                     LET val == Interpret(node.R, env, key.st)
                     IN  IF Failed(val) THEN NilRes(val)
                         ELSE IF key.res.Type = "nil" THEN Panic(val.st)
                         ELSE items(curr.R, Put(obj, toValue(key.res), val.res), val.st)
            ELSE IF node.Type = "SplatNT"
            THEN LET arg == Interpret(node.R, env, h)
                 IN  IF Failed(arg) THEN NilRes(arg)
                     ELSE IF arg.res.Type = "nil" THEN Panic(arg.st)
                     ELSE IF arg.res.Type = "ObjectNT"
                     THEN LET o == arg.st.objs[arg.res.obj]
                          IN  items(curr.R,
                                    [k \in (DOMAIN obj) \cup (DOMAIN o) |->
                                         IF k \in DOMAIN o THEN o[k] ELSE obj[k]],
                                    arg.st)
                     ELSE items(curr.R, obj, arg.st)
            ELSE items(curr.R, obj, h)
    IN  items(n, EmptyMap, st)

interpretFieldAccess(n, env, st) ==
    LET rhs == n.R
        obj == Interpret(n.L, env, st)
    IN
    IF Failed(obj) THEN NilRes(obj)
    ELSE IF obj.res.Type = "nil" THEN Panic(obj.st)
    ELSE IF obj.res.Type = "ObjectNT"
    THEN LET m == obj.st.objs[obj.res.obj]
         IN  IF toValue(rhs) \notin DOMAIN m THEN Ok(FAIL, obj.st)
             ELSE Interpret(m[toValue(rhs)], env, obj.st)
    ELSE IF obj.res.Type = "ModuleNT"
    THEN LET c == obj.st.envs[obj.res.Scope].Consts
         IN  IF ~Has(c, rhs.Val) THEN Ok(FAIL, obj.st)
             ELSE Interpret(c[rhs.Val], env, obj.st)
    ELSE Ok(FAIL, obj.st)

\* ioutil.ReadFile, Scan and Parse of the file at a path below the working
\* directory: the root of its tree, or nil when there is no such file
RECURSIVE ParseFile(_)

\* The Scope of the module node is a new Environment that holds the Consts
\* map of modEnv itself; no code writes to that map once the import is over,
\* so the node refers to modEnv.
importModule(n, env, st) ==
    LET RECURSIVE top(_)
        top(e) == IF st.envs[e].Parent = 0 THEN e ELSE top(st.envs[e].Parent)
        \* strings.Split
        Split(s, sep) ==
            LET RECURSIVE from(_, _, _)
                from(i, piece, out) ==
                    IF i > Len(s) THEN Append(out, piece)
                    ELSE IF SubSeq(s, i, i) = sep THEN from(i + 1, "", Append(out, piece))
                    ELSE from(i + 1, piece \o SubSeq(s, i, i), out)
            IN  from(1, "", <<>>)
        pathElems == Split(n.Val, "/")
        RECURSIVE dirs(_)
        dirs(i) ==
            IF i >= Len(pathElems) THEN ""
            ELSE (IF pathElems[i] = "." THEN "" ELSE pathElems[i] \o "/") \o dirs(i + 1)
        path == dirs(1) \o pathElems[Len(pathElems)]
        modRoot == ParseFile(path)
    IN
    IF modRoot.Type = "nil" THEN Raise("Failed to import from path", st)
    ELSE
    LET root == newScopeId(st)
        modEnv == root + 1
        s1 == newScope(root, newScope(0, st))
        r == Interpret(modRoot, modEnv, s1)
    IN
    IF r.err = PANIC THEN Panic(r.st)
    ELSE IF Failed(r) THEN Raise("Encountered error while importing", r.st)
    ELSE
    LET modName == IF n.R.Type # "nil" THEN n.R.Val
                   ELSE \* getModuleName
                        Split(pathElems[Len(pathElems)], ".")[1]
        module == [Type |-> "ModuleNT", Val |-> modName, Scope |-> modEnv]
    IN  Ok(SUCCESS, [r.st EXCEPT !.envs[top(env)].Consts = Put(@, modName, module)])

Interpret(n, env, st) ==
    CASE n.Type = "nil" -> Panic(st)
      [] n.Type = "StmtNT" -> interpretStmt(n, env, st)
      [] n.Type \in {"AddNT", "SubtNT", "DivNT", "MultNT", "ModuloNT"} ->
           interpretMathOp(n, env, st)
      [] n.Type \in {"LogicAndNT", "LogicOrNT", "FallbackNT"} -> interpretLogicOp(n, env, st)
      [] n.Type \in {"EqualNT", "NotEqualNT", "LessEqualNT", "GreaterEqualNT",
                     "LessNT", "GreaterNT"} -> interpretComparison(n, env, st)
      [] n.Type = "InNT" -> interpretIn(n, env, st)
      [] n.Type \in {"LogicNotNT", "MaybeNT", "CardinalityNT", "UnaryNegNT"} ->
           interpretUnOp(n, env, st)
      [] n.Type \in {"IdentifierNT", "UnderscoreNT", "IndexNT"} -> resolveIdentifier(n, env, st)
      [] n.Type \in {"IntNT", "FloatNT", "BoolNT", "StringNT", "FailNT", "SuccessNT",
                     "NullNT", "SetNT"} -> Ok(copyNode(n), st)
      [] n.Type = "LambdaNT" ->
           Ok([Type |-> "LambdaNT", ref |-> newNodeId(st)], copyLambda(n, env, st))
      [] n.Type = "ObjectNT" ->
           IF "obj" \in DOMAIN n THEN Ok(n, st) ELSE newObject(EmptyMap, st)
      [] n.Type = "ModuleNT" -> Ok(n, st)
      [] n.Type = "ListNT" -> interpretList(n, env, st)
      [] n.Type = "ObjectItemNT" -> interpretObjectItem(n, env, st)
      [] n.Type = "SetItemNT" -> interpretSetItem(n, env, st)
      [] n.Type \in {"ConstDeclNT", "VarDeclNT"} -> declareVar(n, env, st)
      [] n.Type = "AssignmentNT" -> assignVar(n, env, st)
      [] n.Type = "IfNT" -> interpretIf(n, env, st)
      [] n.Type = "CallNT" -> interpretCall(n, env, st)
      [] n.Type = "ReturnStmtNT" ->
           LET returnVal == Interpret(n.R, env, st)
           IN  [res |-> [Type |-> "ReturnStmtNT", R |-> returnVal.res],
                err |-> returnVal.err,
                st |-> IF Failed(returnVal) THEN returnVal.st
                       ELSE Emit(returnVal.st,
                                 [ev |-> "return", d |-> returnVal.st.depth,
                                  val |-> returnVal.res])]
      [] n.Type = "MapNT" -> interpretMap(n, env, st)
      [] n.Type = "WhereNT" -> interpretWhere(n, env, st)
      [] n.Type = "PipeNT" -> interpretPipe(n, env, st)
      [] n.Type = "FindNT" -> interpretFind(n, env, st)
      [] n.Type = "BracketAccessNT" -> interpretBracketAccess(n, env, st)
      [] n.Type = "FieldAccessNT" -> interpretFieldAccess(n, env, st)
      [] n.Type = "ListSliceNT" -> interpretListSlice(n, env, st)
      [] n.Type = "ImportNT" -> importModule(n, env, st)
      [] n.Type \in {"BreakNT", "ContinueNT"} -> Ok(n, st)
      [] n.Type = "WhileStmtNT" -> interpretWhile(n, env, st)
      [] n.Type = "ForStmtNT" -> interpretFor(n, env, st)
      [] OTHER -> Raise("Unknown node type", st)

-----------------------------------------------------------------------------
(* Syntax trees, as Parse builds them (combinators.go, nodify.go) *)

N(t, v, l, r) == [Type |-> t, Val |-> v, L |-> l, R |-> r]

IntLit(i) == N("IntNT", i, NilNode, NilNode)
FloatLit(n, d) == N("FloatNT", Frac(n, d), NilNode, NilNode)
BoolLit(b) == N("BoolNT", b, NilNode, NilNode)
Ident(x) == N("IdentifierNT", x, NilNode, NilNode)
ListLit(items) == N("ListNT", items, NilNode, NilNode)
BinOp(t, l, r) == N(t, "", l, r)
UnOp(t, r) == N(t, "", NilNode, r)
Decl(kind, x, e) == N(kind, "", Ident(x), e)
Assign(x, e) == N("AssignmentNT", "", Ident(x), e)
\* nAssignment: x op= e is the assignment of (x op e) to x
CompoundAssign(t, x, e) == N("AssignmentNT", "", Ident(x), BinOp(t, Ident(x), e))
If(c, body) == N("IfNT", "", c, body)
While(c, body) == N("WhileStmtNT", "", c, body)
For(x, e, body) == N("ForStmtNT", "", N("ConstDeclNT", "", Ident(x), e), body)
Return(e) == N("ReturnStmtNT", "", NilNode, e)
Break == N("BreakNT", "", NilNode, NilNode)
Continue == N("ContinueNT", "", NilNode, NilNode)
Lambda(params, body) == N("LambdaNT", "", params, body)
Call(f, args) == N("CallNT", "", f, args)

\* pStmts: a chain of StmtNT nodes linked through R
Stmts(ss) ==
    LET RECURSIVE StmtsFrom(_)
        StmtsFrom(i) ==
            IF i > Len(ss) THEN NilNode ELSE N("StmtNT", "", ss[i], StmtsFrom(i + 1))
    IN  StmtsFrom(1)

\* pParams: a chain of ParamNT nodes; () is one ParamNT with neither Val nor L
Params(xs) ==
    LET RECURSIVE ParamsFrom(_)
        ParamsFrom(i) ==
            IF i > Len(xs) THEN NilNode ELSE N("ParamNT", xs[i], NilNode, ParamsFrom(i + 1))
    IN  IF Len(xs) = 0 THEN N("ParamNT", "", NilNode, NilNode) ELSE ParamsFrom(1)

\* pCallRhs: a chain of ArgNT nodes; () is one ArgNT with a nil L
Args(es) ==
    LET RECURSIVE ArgsFrom(_)
        ArgsFrom(i) ==
            IF i > Len(es) THEN NilNode ELSE N("ArgNT", "", es[i], ArgsFrom(i + 1))
    IN  IF Len(es) = 0 THEN N("ArgNT", "", NilNode, NilNode) ELSE ArgsFrom(1)

\* maybeFunc: the parsed node, inside a lambda of the parameter _ when the
\* search through L and R meets an UnderscoreNT and no forbidden node.  The
\* search returns the node unchanged at the first forbidden node, whatever it
\* has met before, so its order does not matter.
maybeFunc(node) ==
    LET forbidden == {"MapNT", "WhereNT", "PipeNT", "StmtNT"}
        RECURSIVE meets(_, _)
        meets(n, types) ==
            /\ n.Type # "nil"
            /\ \/ n.Type \in types
               \/ meets(n.L, types)
               \/ meets(n.R, types)
    IN  IF meets(node, forbidden) THEN node
        ELSE IF meets(node, {"UnderscoreNT"})
        THEN N("LambdaNT", "", N("ParamNT", "_", NilNode, NilNode), node)
        ELSE node

\* The files that a program can import
ParseFile(path) ==
    CASE path = "mod.rye" ->
           \* secret := 42
           \* var hidden := 5
           \* get := () => secret
           \* peek := () => x
           Stmts(<<Decl("ConstDeclNT", "secret", IntLit(42)),
                   Decl("VarDeclNT", "hidden", IntLit(5)),
                   Decl("ConstDeclNT", "get", Lambda(Params(<<>>), Ident("secret"))),
                   Decl("ConstDeclNT", "peek", Lambda(Params(<<>>), Ident("x")))>>)
      [] path = "lib/probe.rye" ->
           \* leak := x
           Stmts(<<Decl("ConstDeclNT", "leak", Ident("x"))>>)
      [] OTHER -> NilNode

-----------------------------------------------------------------------------
(* The interpreter as a state machine: runPrompt keeps one environment and *)
(* interprets one program after another in it.  A step either reads a line *)
(* (Read, used by the input actions of each specification) or interprets   *)
(* the line read (RunLine).                                                *)

\* StdLib: the environment above the top level, holding the built-ins
StdLibEnv == [Parent |-> 0,
              Consts |-> [k \in {"typeof", "append", "add", "remove"} |->
                             [Type |-> "LambdaNT",
                              ref |-> CASE k = "typeof" -> 1 [] k = "append" -> 2
                                        [] k = "add" -> 3 [] k = "remove" -> 4]],
              Vars |-> EmptyMap]
TopEnv == [Parent |-> 1, Consts |-> EmptyMap, Vars |-> EmptyMap]
Top == 2

\* No line read and not yet interpreted
NoLine == [op |-> "none", arg |-> 0, prog |-> NilNode]

NoLast == [op |-> "none", arg |-> 0, res |-> NilNode, err |-> "", raised |-> FALSE, env |-> 0]

InitMode(m) ==
    /\ mode = m
    /\ envs = <<StdLibEnv, TopEnv>>
    /\ nodes = <<[L |-> NilNode, R |-> NilNode, Scope |-> 0, Func |-> "typeof"],
                 [L |-> NilNode, R |-> NilNode, Scope |-> 0, Func |-> "append"],
                 [L |-> NilNode, R |-> NilNode, Scope |-> 0, Func |-> "add"],
                 [L |-> NilNode, R |-> NilNode, Scope |-> 0, Func |-> "remove"]>>
    /\ arrs = <<>>
    /\ objs = <<>>
    /\ born = <<0, 0, 0, 0>>
    /\ cur = Top
    /\ last = NoLast
    /\ log = <<>>
    /\ lines = 0
    /\ hist = <<>>
    /\ pending = NoLine

\* The heap an evaluation starts from
St == [envs |-> envs, nodes |-> nodes, arrs |-> arrs, objs |-> objs, born |-> born,
       log |-> <<>>, raised |-> FALSE, depth |-> 0, nextId |-> 1]

Crashed == last.err = PANIC

\* runPrompt lines 66-86: a line is read, scanned and parsed
Read(op, arg, prog) ==
    /\ ~Crashed
    /\ pending.op = "none"
    /\ pending' = [op |-> op, arg |-> arg, prog |-> prog]
    /\ UNCHANGED <<envs, nodes, arrs, objs, born, cur, last, log, lines, mode, hist>>

\* runPrompt lines 89-94: Interpret(root, env); the environment is kept, error or not
RunLine ==
    LET done(r) ==
            /\ pending' = NoLine
            /\ envs' = r.st.envs
            /\ nodes' = r.st.nodes
            /\ arrs' = r.st.arrs
            /\ objs' = r.st.objs
            /\ born' = r.st.born
            /\ log' = r.st.log
            /\ last' = [op |-> pending.op, arg |-> pending.arg, res |-> r.res,
                        err |-> r.err, raised |-> r.st.raised, env |-> cur]
            /\ lines' = lines + 1
            /\ hist' = IF mode = "env" THEN hist
                       ELSE Append(hist, [op |-> pending.op, arg |-> pending.arg,
                                          res |-> r.res, err |-> r.err])
            /\ UNCHANGED <<cur, mode>>
    IN  /\ pending.op # "none"
        /\ done(Interpret(pending.prog, cur, St))

-----------------------------------------------------------------------------
(* SpecEnv: declarations and assignments along an environment chain.  A    *)
(* body (of a call, of a loop iteration) runs its statements one after     *)
(* another in a scope made by newScope; EnterScope and LeaveScope are the  *)
(* entry to and the return from such a body.                               *)

Names == {"x", "y"}
Values == 1..MaxOperand

RECURSIVE ChainDepth(_, _)
ChainDepth(e, es) == IF e = 0 THEN 0 ELSE 1 + ChainDepth(es[e].Parent, es)

EnterScope ==
    /\ ~Crashed
    /\ pending.op = "none"
    /\ lines < MaxScopeOps
    /\ ChainDepth(cur, envs) < 2 + MaxDepth
    /\ envs' = newScope(cur, St).envs
    /\ cur' = newScopeId(St)
    /\ last' = [NoLast EXCEPT !.op = "enter", !.env = cur]
    /\ log' = <<>>
    /\ lines' = lines + 1
    /\ UNCHANGED <<nodes, arrs, objs, born, mode, hist, pending>>

LeaveScope ==
    /\ ~Crashed
    /\ pending.op = "none"
    /\ lines < MaxScopeOps
    /\ cur # Top
    /\ cur' = envs[cur].Parent
    /\ last' = [NoLast EXCEPT !.op = "leave", !.env = cur]
    /\ log' = <<>>
    /\ lines' = lines + 1
    /\ UNCHANGED <<envs, nodes, arrs, objs, born, mode, hist, pending>>

Declare ==
    \E kind \in {"ConstDeclNT", "VarDeclNT"}, x \in Names, v \in Values :
        /\ lines < MaxScopeOps
        /\ Read("declare", [kind |-> kind, ident |-> x, val |-> v],
                Stmts(<<Decl(kind, x, IntLit(v))>>))

AssignStmt ==
    \E x \in Names, v \in Values, compound \in BOOLEAN :
        /\ lines < MaxScopeOps
        /\ Read("assign", [ident |-> x, val |-> v, compound |-> compound],
                Stmts(<<IF compound THEN CompoundAssign("AddNT", x, IntLit(v))
                        ELSE Assign(x, IntLit(v))>>))

NextEnv == EnterScope \/ LeaveScope \/ Declare \/ AssignStmt \/ RunLine

SpecEnv == InitMode("env") /\ [][NextEnv]_vars

-----------------------------------------------------------------------------
\* The nearest scope, from e outward, that binds x, and how it binds it
RECURSIVE Binding(_, _, _)
Binding(x, e, es) ==
    IF e = 0 THEN [e |-> 0, kind |-> "none"]
    ELSE IF Has(es[e].Consts, x) THEN [e |-> e, kind |-> "const"]
    ELSE IF Has(es[e].Vars, x) THEN [e |-> e, kind |-> "var"]
    ELSE Binding(x, es[e].Parent, es)

AssignedValue(arg, old) ==
    IF arg.compound THEN newInt(old.Val + arg.val) ELSE newInt(arg.val)

C1_AssignStep ==
    LET x == last'.arg.ident
        b == Binding(x, cur, envs)
    IN  CASE b.kind = "const" ->
               /\ last'.err = "Cannot assign to constant variable"
               /\ envs' = envs
          [] b.kind = "var" ->
               /\ last'.err = ""
               /\ envs' = [envs EXCEPT ![b.e].Vars[x] = AssignedValue(last'.arg, @)]
          [] OTHER ->
               /\ last'.err = "Cannot assign to undefined variable"
               /\ envs' = envs

\* C1: an assignment to a bare identifier (plain or compound) walks the chain
\* outward from the current scope: the nearest binding decides.  A constant is
\* a hard error, a variable is updated in place in the scope that holds it, an
\* unbound name is a hard error; in the error cases no binding of any scope
\* changes.
C1_AssignWalksChain ==
    [][lines' # lines /\ last'.op = "assign" => C1_AssignStep]_vars

\* An assignment made in a nested scope updated a variable of an enclosing scope
C1_Witness ==
    /\ last.op = "assign"
    /\ last.err = ""
    /\ cur # Top
    /\ Binding(last.arg.ident, cur, envs).e # cur
    /\ Binding(last.arg.ident, cur, envs).kind = "var"

C2_DeclareStep ==
    LET x == last'.arg.ident
        v == newInt(last'.arg.val)
    IN  IF Has(envs[cur].Consts, x) \/ Has(envs[cur].Vars, x)
        THEN /\ last'.err = "is already defined"
             /\ envs' = envs
        ELSE /\ last'.err = ""
             /\ envs' = IF last'.arg.kind = "VarDeclNT"
                        THEN [envs EXCEPT ![cur].Vars = Put(@, x, v)]
                        ELSE [envs EXCEPT ![cur].Consts = Put(@, x, v)]
             /\ resolveIdentifierFrom(x, cur, [envs |-> envs']).res = v

\* C2: declaring a name that the current scope already holds, as a constant or
\* as a variable, is a hard error that changes no binding; declaring a name
\* bound only in an enclosing scope succeeds, binds it in the current scope
\* alone (every other scope is unchanged) and the new binding is the one the
\* name resolves to from the current scope.
C2_DeclareInScope ==
    [][lines' # lines /\ last'.op = "declare" => C2_DeclareStep]_vars

\* A redeclaration failed in a scope whose binding shadows an enclosing one
C2_Witness ==
    /\ last.op = "declare"
    /\ last.err = "is already defined"
    /\ cur # Top
    /\ Binding(last.arg.ident, cur, envs).e = cur
    /\ Binding(last.arg.ident, envs[cur].Parent, envs).kind # "none"
    /\ resolveIdentifierFrom(last.arg.ident, cur, [envs |-> envs]).res
         # resolveIdentifierFrom(last.arg.ident, envs[cur].Parent, [envs |-> envs]).res

-----------------------------------------------------------------------------
(* Spec: the prompt.  Each step reads one line and interprets it in the    *)
(* environment kept since the start.                                       *)

\* Lines that declare a function or a variable
DeclLines == <<
    \* var x := 1
    Decl("VarDeclNT", "x", IntLit(1)),
    \* f := () => x
    Decl("ConstDeclNT", "f", Lambda(Params(<<>>), Ident("x"))),
    \* g := () => { var x := 2; return f() }
    Decl("ConstDeclNT", "g",
         Lambda(Params(<<>>),
                Stmts(<<Decl("VarDeclNT", "x", IntLit(2)),
                        Return(Call(Ident("f"), Args(<<>>)))>>))),
    \* h := () => { while true { return 1 }; return 3 }
    Decl("ConstDeclNT", "h",
         Lambda(Params(<<>>),
                Stmts(<<While(BoolLit(TRUE), Stmts(<<Return(IntLit(1))>>)),
                        Return(IntLit(3))>>))),
    \* k := () => { for i in [1, 2] { return i }; return 3 }
    Decl("ConstDeclNT", "k",
         Lambda(Params(<<>>),
                Stmts(<<For("i", ListLit(<<IntLit(1), IntLit(2)>>),
                            Stmts(<<Return(Ident("i"))>>)),
                        Return(IntLit(3))>>))),
    \* m := () => { var y := 0; if true { return 1; y = 3 }; return y }
    Decl("ConstDeclNT", "m",
         Lambda(Params(<<>>),
                Stmts(<<Decl("VarDeclNT", "y", IntLit(0)),
                        If(BoolLit(TRUE),
                           Stmts(<<Return(IntLit(1)), Assign("y", IntLit(3))>>)),
                        Return(Ident("y"))>>))) >>

\* Lines that call a function by its name, without arguments
CallNames == <<"f", "g", "h", "k", "m">>

\* Lines that are an expression or a statement
ExprLines == <<
    \* [1, 2] map (v => v + 1)
    BinOp("MapNT", ListLit(<<IntLit(1), IntLit(2)>>),
          Lambda(Params(<<"v">>), BinOp("AddNT", Ident("v"), IntLit(1)))),
    \* [1, 2] map (v => y)
    BinOp("MapNT", ListLit(<<IntLit(1), IntLit(2)>>),
          Lambda(Params(<<"v">>), Ident("y"))),
    \* [1, 2] where (v => y)
    BinOp("WhereNT", ListLit(<<IntLit(1), IntLit(2)>>),
          Lambda(Params(<<"v">>), Ident("y"))),
    \* while false { x = 1 }
    While(BoolLit(FALSE), Stmts(<<Assign("x", IntLit(1))>>)),
    \* for i in [] { x = 1 }
    For("i", ListLit(<<>>), Stmts(<<Assign("x", IntLit(1))>>)),
    \* x + 1
    BinOp("AddNT", Ident("x"), IntLit(1)),
    \* [1, 2] find (v => v - 1)
    BinOp("FindNT", ListLit(<<IntLit(1), IntLit(2)>>),
          Lambda(Params(<<"v">>), BinOp("SubtNT", Ident("v"), IntLit(1)))),
    \* [1, 2] |> (_ find (v => v - 1))
    BinOp("PipeNT", ListLit(<<IntLit(1), IntLit(2)>>),
          maybeFunc(BinOp("FindNT", N("UnderscoreNT", "_", NilNode, NilNode),
                          Lambda(Params(<<"v">>), BinOp("SubtNT", Ident("v"), IntLit(1)))))) >>

DeclLine ==
    \E i \in 1..Len(DeclLines) :
        /\ lines < MaxLines
        /\ Read("decl", i, Stmts(<<DeclLines[i]>>))

CallLine ==
    \E i \in 1..Len(CallNames) :
        /\ lines < MaxLines
        /\ Read("call", CallNames[i], Stmts(<<Call(Ident(CallNames[i]), Args(<<>>))>>))

ExprLine ==
    \E i \in 1..Len(ExprLines) :
        /\ lines < MaxLines
        /\ Read("expr", i, Stmts(<<ExprLines[i]>>))

Next == DeclLine \/ CallLine \/ ExprLine \/ RunLine

Spec == InitMode("prompt") /\ [][Next]_vars


-----------------------------------------------------------------------------
\* C3: lexical scoping.  Every lambda value made from a lambda expression
\* carries a captured scope that is not nil and is the environment in which
\* the expression was evaluated, and every call of it runs in a child scope
\* of that environment (so a free identifier of the body is looked up in the
\* defining environment, never in the caller's).
C3_LexicalScoping ==
    /\ \A k \in 1..Len(nodes) :
           nodes[k].Func = "" => nodes[k].Scope # 0 /\ nodes[k].Scope = born[k]
    /\ \A i \in 1..Len(log) :
           log[i].ev = "call" =>
               /\ log[i].parent = born[log[i].lam]
               /\ envs[log[i].scope].Parent = born[log[i].lam]

\* The position of the first exit of a call at depth d after position i of the log
RECURSIVE ExitAfter(_, _)
ExitAfter(i, d) ==
    IF i > Len(log) THEN i
    ELSE IF log[i].ev = "exit" /\ log[i].d = d THEN i
    ELSE ExitAfter(i + 1, d)

\* C6: in a function whose body is a statement chain, a return statement that
\* executes ends the call with the returned value: between the return and the
\* end of that call no statement of the function runs, whether the return is
\* in the body itself, in a while loop, in a for loop or in an if block.
C6_ReturnEndsCall ==
    \A i \in 1..Len(log) :
        log[i].ev = "return" /\ log[i].d >= 1 =>
            LET j == ExitAfter(i + 1, log[i].d) IN
            /\ \A k \in (i + 1)..(j - 1) :
                   ~(log[k].ev = "stmt" /\ log[k].d = log[i].d)
            /\ j <= Len(log) => log[j].err = "" /\ log[j].val = log[i].val

\* C8: a hard error raised anywhere in the evaluation of a line is the outcome
\* of the line: no construct (operand, argument, condition, loop body, or the
\* application of the callable by map, where, find, |>) turns it into a value
\* or goes on after it.
C8_ErrorsPropagate == last.raised => last.err # ""

ValueKinds == {"IntNT", "FloatNT", "BoolNT", "StringNT", "NullNT", "SuccessNT", "FailNT",
               "ListNT", "SetNT", "ObjectNT", "LambdaNT", "ModuleNT"}

\* C9: an evaluation that ends without a hard error returns a node, and the
\* node is a value (int, float, bool, string, null, success, fail, list, set,
\* object, lambda, module): never nil and never a break, continue or return
\* marker, also when a loop runs no iteration.
C9_ResultIsValue ==
    last.op \in {"decl", "call", "expr"} /\ last.err = "" => last.res.Type \in ValueKinds


-----------------------------------------------------------------------------
(* SpecAdder: the closure example of the README at the prompt.             *)
(*   createAdder := a => b => a + b                                        *)
(*   add1 := createAdder(A)      add2 := createAdder(A)                    *)
(*   add1(B)                     add2(B)                                   *)

Bound(x) == Has(envs[Top].Consts, x) \/ Has(envs[Top].Vars, x)

DeclareCreateAdder ==
    /\ lines < MaxAdderLines
    /\ ~Bound("createAdder")
    /\ Read("declare", "createAdder",
            Stmts(<<Decl("ConstDeclNT", "createAdder",
                         Lambda(Params(<<"a">>),
                                Lambda(Params(<<"b">>),
                                       BinOp("AddNT", Ident("a"), Ident("b")))))>>))

MakeAdder ==
    \E f \in {"add1", "add2"}, a \in Values :
        /\ lines < MaxAdderLines
        /\ Bound("createAdder")
        /\ ~Bound(f)
        /\ Read("make", [f |-> f, a |-> a],
                Stmts(<<Decl("ConstDeclNT", f,
                             Call(Ident("createAdder"), Args(<<IntLit(a)>>)))>>))

ApplyAdder ==
    \E f \in {"add1", "add2"}, b \in Values :
        /\ lines < MaxAdderLines
        /\ Bound(f)
        /\ Read("apply", [f |-> f, b |-> b],
                Stmts(<<Call(Ident(f), Args(<<IntLit(b)>>))>>))

NextAdder == DeclareCreateAdder \/ MakeAdder \/ ApplyAdder \/ RunLine

SpecAdder == InitMode("adder") /\ [][NextAdder]_vars

\* The argument that the adder named f was made with
MadeWith(f) ==
    LET j == CHOOSE j \in 1..Len(hist) : hist[j].op = "make" /\ hist[j].arg.f = f
    IN  hist[j].arg.a

\* C4: a lambda returned by a call captures the scope of that call, so the
\* parameter of the outer call stays resolvable afterwards: once
\* f := createAdder(A) has run, the captured scope of f is the scope of that
\* call and binds a to A, and every later f(B) returns the integer A + B,
\* whatever other adders have been made in between.
C4_AdderKeepsArgument ==
    /\ last.op = "make" =>
           /\ last.err = ""
           /\ \E i \in 1..Len(log) :
                  /\ log[i].ev = "call"
                  /\ LamScope(envs[Top].Consts[last.arg.f], St) = log[i].scope
                  /\ resolveIdentifierFrom("a", log[i].scope, St).res = newInt(last.arg.a)
    /\ \A i \in 1..Len(hist) :
           hist[i].op = "apply" =>
               /\ hist[i].err = ""
               /\ hist[i].res = newInt(MadeWith(hist[i].arg.f) + hist[i].arg.b)

\* Two adders made with different arguments, and the first one applied afterwards
C4_Witness ==
    /\ Len(hist) = 4
    /\ hist[2].op = "make" /\ hist[3].op = "make"
    /\ hist[2].arg.a # hist[3].arg.a
    /\ hist[4].op = "apply" /\ hist[4].arg.f = hist[2].arg.f
    /\ hist[4].res = newInt(hist[2].arg.a + hist[4].arg.b)


-----------------------------------------------------------------------------
(* SpecToggle: the createToggle example of the README at the prompt.       *)
(*   createToggle := () => { var state := false                            *)
(*                           return () => { state = !state; return state } } *)
(*   t1 := createToggle()        t2 := createToggle()                      *)
(*   t1()                        t2()                                      *)

DeclareCreateToggle ==
    /\ lines < MaxToggleLines
    /\ ~Bound("createToggle")
    /\ Read("declare", "createToggle",
            Stmts(<<Decl("ConstDeclNT", "createToggle",
                Lambda(Params(<<>>),
                       Stmts(<<Decl("VarDeclNT", "state", BoolLit(FALSE)),
                               Return(Lambda(Params(<<>>),
                                   Stmts(<<Assign("state",
                                                  UnOp("LogicNotNT", Ident("state"))),
                                           Return(Ident("state"))>>)))>>)))>>))

MakeToggle ==
    \E t \in {"t1", "t2"} :
        /\ lines < MaxToggleLines
        /\ Bound("createToggle")
        /\ ~Bound(t)
        /\ Read("make", t,
                Stmts(<<Decl("ConstDeclNT", t, Call(Ident("createToggle"), Args(<<>>)))>>))

CallToggle ==
    \E t \in {"t1", "t2"} :
        /\ lines < MaxToggleLines
        /\ Bound(t)
        /\ Read("toggle", t, Stmts(<<Call(Ident(t), Args(<<>>))>>))

NextToggle == DeclareCreateToggle \/ MakeToggle \/ CallToggle \/ RunLine

SpecToggle == InitMode("toggle") /\ [][NextToggle]_vars

\* The number of calls of the toggle t among the first n lines
RECURSIVE CallsOf(_, _)
CallsOf(t, n) ==
    IF n = 0 THEN 0
    ELSE CallsOf(t, n - 1) + (IF hist[n].op = "toggle" /\ hist[n].arg = t THEN 1 ELSE 0)

\* C5: closures capture by reference.  The lambda returned by createToggle()
\* reads and updates the same `state` variable on every call: the calls of one
\* toggle return true, false, true, ... (the n-th call returns true exactly
\* when n is odd), and the calls of a toggle made by another createToggle()
\* do not change that (each has a variable of its own).
C5_ToggleAlternates ==
    \A i \in 1..Len(hist) :
        hist[i].op = "toggle" =>
            /\ hist[i].err = ""
            /\ hist[i].res = newBool(CallsOf(hist[i].arg, i) % 2 = 1)

\* One toggle returned true, false, true while the other was called in between
C5_Witness ==
    /\ CallsOf("t1", Len(hist)) = 3
    /\ CallsOf("t2", Len(hist)) = 1
    /\ last.op = "toggle" /\ last.arg = "t1" /\ last.res = TrueNode
    /\ \E i \in 1..Len(hist) :
           /\ hist[i].op = "toggle" /\ hist[i].arg = "t2"
           /\ CallsOf("t1", i) = 2


-----------------------------------------------------------------------------
(* SpecLoop: runFile on a file holding one while loop.                     *)
(*   var i := I0; var s := 0                                               *)
(*   while i < N { i += 1; if i == B { break }; if i == C { continue }; s += i } *)
(* Each run starts from the initial environment (a new process).           *)

LoopFile(i0, n, b, c) ==
    Stmts(<<Decl("VarDeclNT", "i", IntLit(i0)),
            Decl("VarDeclNT", "s", IntLit(0)),
            While(BinOp("LessNT", Ident("i"), IntLit(n)),
                  Stmts(<<CompoundAssign("AddNT", "i", IntLit(1)),
                          If(BinOp("EqualNT", Ident("i"), IntLit(b)), Stmts(<<Break>>)),
                          If(BinOp("EqualNT", Ident("i"), IntLit(c)), Stmts(<<Continue>>)),
                          CompoundAssign("AddNT", "s", Ident("i"))>>))>>)

RunLoopFile ==
    \E i0 \in 0..MaxIter, n \in 0..MaxIter, b \in 0..MaxIter, c \in 0..MaxIter :
        /\ lines = 0
        /\ Read("loop", [i0 |-> i0, n |-> n, b |-> b, c |-> c], LoopFile(i0, n, b, c))

\* The process ends; the next run starts from the initial environment
Restart ==
    /\ lines > 0
    /\ pending.op = "none"
    /\ envs' = <<StdLibEnv, TopEnv>>
    /\ nodes' = <<[L |-> NilNode, R |-> NilNode, Scope |-> 0, Func |-> "typeof"],
                  [L |-> NilNode, R |-> NilNode, Scope |-> 0, Func |-> "append"],
                  [L |-> NilNode, R |-> NilNode, Scope |-> 0, Func |-> "add"],
                  [L |-> NilNode, R |-> NilNode, Scope |-> 0, Func |-> "remove"]>>
    /\ arrs' = <<>>
    /\ objs' = <<>>
    /\ born' = <<0, 0, 0, 0>>
    /\ last' = NoLast
    /\ log' = <<>>
    /\ lines' = 0
    /\ hist' = <<>>
    /\ UNCHANGED <<cur, mode, pending>>

NextLoop == RunLoopFile \/ RunLine \/ Restart

SpecLoop == InitMode("loop") /\ [][NextLoop]_vars

\* What the loop of LoopFile must leave, by the meaning of break and continue:
\* i, s and the number of times the condition was evaluated
RECURSIVE LoopMeaning(_, _, _, _)
LoopMeaning(a, i, s, conds) ==
    IF ~(i < a.n) THEN [i |-> i, s |-> s, conds |-> conds + 1]
    ELSE IF i + 1 = a.b THEN [i |-> i + 1, s |-> s, conds |-> conds + 1]
    ELSE IF i + 1 = a.c THEN LoopMeaning(a, i + 1, s, conds + 1)
    ELSE LoopMeaning(a, i + 1, s + i + 1, conds + 1)

\* C7: in a while loop a break ends the loop at once (no further statement of
\* the body runs and the condition is not evaluated again) and a continue
\* skips the rest of the iteration and goes back to the condition.  In the
\* trace of a run the step after a break is the exit of that loop and the
\* step after a continue is the evaluation of its condition; the variables
\* and the number of condition evaluations are those the meaning of break
\* and continue gives.
C7_WhileBreakContinue ==
    last.op = "loop" =>
        /\ last.err = ""
        /\ \A k \in 1..Len(log) :
               /\ log[k].ev = "break" =>
                      k < Len(log) /\ log[k + 1] = [ev |-> "loopexit", loop |-> log[k].loop]
               /\ log[k].ev = "continue" =>
                      k < Len(log) /\ log[k + 1] = [ev |-> "cond", loop |-> log[k].loop]
        /\ LET m == LoopMeaning(last.arg, last.arg.i0, 0, 0) IN
           /\ envs[Top].Vars["i"] = newInt(m.i)
           /\ envs[Top].Vars["s"] = newInt(m.s)
           /\ Cardinality({k \in 1..Len(log) : log[k].ev = "cond"}) = m.conds

\* A run in which one iteration was cut short by continue, a later one added
\* to s, and the loop was then ended by break with the condition still true
C7_Witness ==
    /\ last.op = "loop"
    /\ \E k \in 1..Len(log) : log[k].ev = "continue"
    /\ \E k \in 1..Len(log) : log[k].ev = "break"
    /\ envs[Top].Vars["s"].Val > 0
    /\ envs[Top].Vars["i"].Val < last.arg.n


-----------------------------------------------------------------------------
(* SpecMath: runFile on a file holding one arithmetic expression over two  *)
(* numeric literals, `a op b` or `typeof(a op b)`.                         *)

\* Integer literals 0, 1, ... and float literals 0.0, 0.5, 1.0, ...
Operands ==
    {IntLit(i) : i \in 0..MaxOperand} \cup {FloatLit(k, 2) : k \in 0..(2 * MaxOperand)}

EvalMath ==
    \E a \in Operands, b \in Operands, op \in {"AddNT", "SubtNT", "MultNT", "DivNT"} :
        /\ lines = 0
        /\ Read("math", [a |-> a, b |-> b, op |-> op], Stmts(<<BinOp(op, a, b)>>))

TypeofMath ==
    \E a \in Operands, b \in Operands, op \in {"AddNT", "SubtNT", "MultNT", "DivNT"} :
        /\ lines = 0
        /\ Read("typeof", [a |-> a, b |-> b, op |-> op],
                Stmts(<<Call(Ident("typeof"), Args(<<BinOp(op, a, b)>>))>>))

NextMath == EvalMath \/ TypeofMath \/ RunLine \/ Restart

SpecMath == InitMode("math") /\ [][NextMath]_vars

BothInt(arg) == arg.a.Type = "IntNT" /\ arg.b.Type = "IntNT"

\* C10 as stated: for +, -, * and /, two integers give an integer and a float
\* on either side gives a float (typeof says "Int", respectively "Float").
C10_IntStaysInt ==
    /\ last.op = "math" =>
           /\ last.err = ""
           /\ last.res.Type = IF BothInt(last.arg) THEN "IntNT" ELSE "FloatNT"
    /\ last.op = "typeof" =>
           /\ last.err = ""
           /\ last.res = newString(IF BothInt(last.arg) THEN "Int" ELSE "Float")

ZeroDivisor(arg) ==
    IF arg.b.Type = "IntNT" THEN arg.b.Val = 0 ELSE arg.b.Val[1] = 0

\* The kind of a op b on numeric literals
MathKind(arg) ==
    IF arg.op = "DivNT"
    THEN IF ZeroDivisor(arg) THEN "FailNT" ELSE "FloatNT"
    ELSE IF BothInt(arg) THEN "IntNT" ELSE "FloatNT"

IntMeaning(arg) ==
    CASE arg.op = "AddNT" -> arg.a.Val + arg.b.Val
      [] arg.op = "SubtNT" -> arg.a.Val - arg.b.Val
      [] arg.op = "MultNT" -> arg.a.Val * arg.b.Val

\* C10, amended: for +, - and * two integers give the integer sum, difference
\* or product and a float on either side gives a float; / on two numbers
\* gives a float whenever the divisor is not zero, also for two integers,
\* and fail when the divisor is zero.  typeof of the result says "Int",
\* "Float" or "Result" accordingly.
C10_NumericCoercion ==
    /\ last.op = "math" =>
           /\ last.err = ""
           /\ last.res.Type = MathKind(last.arg)
           /\ last.res.Type = "IntNT" => last.res.Val = IntMeaning(last.arg)
           /\ last.arg.op = "DivNT" /\ BothInt(last.arg) /\ ~ZeroDivisor(last.arg) =>
                  last.res.Val = Frac(last.arg.a.Val, last.arg.b.Val)
    /\ last.op = "typeof" =>
           /\ last.err = ""
           /\ last.res = newString(CASE MathKind(last.arg) = "IntNT" -> "Int"
                                     [] MathKind(last.arg) = "FloatNT" -> "Float"
                                     [] OTHER -> "Result")

\* The quotient of two integers came out as the float 0.5
C10_Witness ==
    /\ last.op = "math"
    /\ last.arg.op = "DivNT"
    /\ last.arg.a = IntLit(1) /\ last.arg.b = IntLit(2)
    /\ last.res = newFloat(Frac(1, 2))

-----------------------------------------------------------------------------
(* SpecFile: runFile on a file that holds one small program drawn from a   *)
(* family (the families are the actions).  Each run starts from the        *)
(* initial environment (a new process).                                    *)

\* Expressions, and the value each of them denotes (a list by its elements)
Samples == <<
    [e |-> IntLit(0), v |-> newInt(0)],
    [e |-> IntLit(1), v |-> newInt(1)],
    [e |-> BoolLit(FALSE), v |-> FalseNode],
    [e |-> N("StringNT", "", NilNode, NilNode), v |-> newString("")],
    [e |-> N("NullNT", "", NilNode, NilNode), v |-> [Type |-> "NullNT"]],
    [e |-> N("SuccessNT", "", NilNode, NilNode), v |-> SUCCESS],
    [e |-> N("FailNT", "", NilNode, NilNode), v |-> FAIL],
    \* 1 / 0
    [e |-> BinOp("DivNT", IntLit(1), IntLit(0)), v |-> FAIL],
    [e |-> ListLit(<<>>), v |-> [Type |-> "ListNT", items |-> <<>>]],
    [e |-> ListLit(<<IntLit(1)>>), v |-> [Type |-> "ListNT", items |-> <<newInt(1)>>]] >>

\* v | w
EvalFallback ==
    \E i \in 1..Len(Samples), j \in 1..Len(Samples) :
        /\ lines = 0
        /\ Read("fallback", [v |-> Samples[i].v, w |-> Samples[j].v],
                Stmts(<<BinOp("FallbackNT", Samples[i].e, Samples[j].e)>>))

\* The list [10, 11, ...] or the string "ab..." of length n
Container(kind, n) ==
    IF kind = "list" THEN ListLit([k \in 1..n |-> IntLit(9 + k)])
    ELSE N("StringNT", SubSeq("abcdefgh", 1, n), NilNode, NilNode)

\* The literal of the integer i, or of a float that int64() truncates to i;
\* a negative number is the negation of a literal
Number(i, float) ==
    LET lit == IF float THEN FloatLit(2 * Abs(i) + 1, 2) ELSE IntLit(Abs(i))
    IN  IF i < 0 THEN UnOp("UnaryNegNT", lit) ELSE lit

\* x[i]
EvalIndex ==
    \E kind \in {"list", "string"}, n \in 0..MaxLen,
       i \in (-(MaxLen + 1))..(MaxLen + 1), float \in BOOLEAN :
        /\ lines = 0
        /\ Read("index", [kind |-> kind, n |-> n, i |-> i, float |-> float],
                Stmts(<<BinOp("BracketAccessNT", Container(kind, n), Number(i, float))>>))

\* x[a..b], x[a..], x[..b], x[..]
EvalSlice ==
    \E kind \in {"list", "string"}, n \in 0..MaxLen, hasA \in BOOLEAN, hasB \in BOOLEAN,
       a \in (-(MaxLen + 1))..(MaxLen + 1), b \in (-(MaxLen + 1))..(MaxLen + 1) :
        /\ lines = 0
        /\ hasA \/ a = 0
        /\ hasB \/ b = 0
        /\ Read("slice", [kind |-> kind, n |-> n, hasA |-> hasA, a |-> a, hasB |-> hasB, b |-> b],
                Stmts(<<BinOp("ListSliceNT", Container(kind, n),
                              BinOp("SliceNT",
                                    IF hasA THEN Number(a, FALSE) ELSE NilNode,
                                    IF hasB THEN Number(b, FALSE) ELSE NilNode))>>))

\* The accessor of an assignment or of a read: x[i], x.k, x["k"], x.list[i]
Accessor(kind, x, i) ==
    CASE kind = "list" -> BinOp("BracketAccessNT", Ident(x), Number(i, FALSE))
      [] kind = "field" -> BinOp("FieldAccessNT", Ident(x), Ident("k"))
      [] kind = "key" -> BinOp("BracketAccessNT", Ident(x), N("StringNT", "k", NilNode, NilNode))
      [] OTHER -> BinOp("BracketAccessNT", BinOp("FieldAccessNT", Ident(x), Ident("list")),
                        Number(i, FALSE))

\* var a := <container>; b := a; a<accessor> = v; a<accessor> (or b<accessor>)
EvalStore ==
    \E kind \in {"list", "field", "key", "nested"}, n \in 1..MaxLen,
       i \in (-MaxLen)..(MaxLen - 1), v \in {7, 8}, alias \in BOOLEAN :
        /\ lines = 0
        /\ -n <= i /\ i < n
        /\ kind \in {"field", "key"} => n = 1 /\ i = 0
        /\ Read("store", [kind |-> kind, n |-> n, i |-> i, v |-> v, alias |-> alias],
                Stmts(<<Decl("VarDeclNT", "a",
                             CASE kind = "list" -> Container("list", n)
                               [] kind = "nested" ->
                                    N("ObjectItemNT", "",
                                      N("KVPairNT", "", Ident("list"), Container("list", n)),
                                      NilNode)
                               [] OTHER ->
                                    N("ObjectItemNT", "",
                                      N("KVPairNT", "", Ident("k"), IntLit(1)), NilNode)),
                        Decl("ConstDeclNT", "b", Ident("a")),
                        N("AssignmentNT", "", Accessor(kind, "a", i), IntLit(v)),
                        Accessor(kind, IF alias THEN "b" ELSE "a", i)>>))

\* An operation that yields a list from the list a and the element x:
\* a + [x], append(a, x), a map (v => v), a where (v => true)
Derive(op, x) ==
    CASE op = "plus" -> BinOp("AddNT", Ident("a"), ListLit(<<IntLit(x)>>))
      [] op = "append" -> Call(Ident("append"), Args(<<Ident("a"), IntLit(x)>>))
      [] op = "map" -> BinOp("MapNT", Ident("a"), Lambda(Params(<<"v">>), Ident("v")))
      [] OTHER -> BinOp("WhereNT", Ident("a"), Lambda(Params(<<"v">>), BoolLit(TRUE)))

\* var a := <list>; var b := <op on a>; then c := <op on a>, or a[0] = 9, or
\* b[0] = 9; b
EvalDerive ==
    \E n \in 0..MaxLen, op \in {"plus", "append", "map", "where"},
       then \in {"plus", "append", "map", "where", "store a", "store b"} :
        /\ lines = 0
        /\ then \in {"store a", "store b"} => n > 0
        /\ Read("derive", [n |-> n, op |-> op, then |-> then],
                Stmts(<<Decl("VarDeclNT", "a", Container("list", n)),
                        Decl("VarDeclNT", "b", Derive(op, 4)),
                        CASE then = "store a" ->
                                 N("AssignmentNT", "", Accessor("list", "a", 0), IntLit(9))
                          [] then = "store b" ->
                                 N("AssignmentNT", "", Accessor("list", "b", 0), IntLit(9))
                          [] OTHER -> Decl("ConstDeclNT", "c", Derive(then, 5)),
                        Ident("b")>>))

\* The right operands of map and where: lambdas, a built-in, a declared name
Callables == <<
    \* v => v + 1
    [name |-> "inc", e |-> Lambda(Params(<<"v">>), BinOp("AddNT", Ident("v"), IntLit(1)))],
    [name |-> "typeof", e |-> Ident("typeof")],
    \* g, after g := v => v * 2
    [name |-> "g", e |-> Ident("g")],
    \* v => v % 2
    [name |-> "odd", e |-> Lambda(Params(<<"v">>), BinOp("ModuloNT", Ident("v"), IntLit(2)))],
    \* v => v > 10
    [name |-> "gt", e |-> Lambda(Params(<<"v">>), BinOp("GreaterNT", Ident("v"), IntLit(10)))],
    \* v => v / 0
    [name |-> "div0", e |-> Lambda(Params(<<"v">>), BinOp("DivNT", Ident("v"), IntLit(0)))] >>

\* g := v => v * 2; x map f   (or x where f)
EvalMapWhere ==
    \E op \in {"MapNT", "WhereNT"}, kind \in {"list", "other"}, n \in 0..8,
       f \in 1..Len(Callables) :
        /\ lines = 0
        /\ IF kind = "list" THEN n <= MaxLen ELSE n >= 1
        /\ Read("mapwhere", [op |-> op, kind |-> kind, n |-> n, f |-> Callables[f].name],
                Stmts(<<Decl("ConstDeclNT", "g",
                             Lambda(Params(<<"v">>), BinOp("MultNT", Ident("v"), IntLit(2)))),
                        BinOp(op,
                              IF kind = "list" THEN Container("list", n) ELSE Samples[n].e,
                              Callables[f].e)>>))

\* f := ([a, b, c]) => <name>; f(x)      and      [a, b, c] := x; <name>
EvalDestructure ==
    \E form \in {"param", "decl"}, kind \in {"list", "other"}, n \in 0..8, which \in 1..3 :
        LET pattern == ListLit(<<Ident("a"), Ident("b"), Ident("c")>>)
            name == Ident(<<"a", "b", "c">>[which])
            x == IF kind = "list" THEN Container("list", n) ELSE Samples[n].e
        IN  /\ lines = 0
            /\ IF kind = "list" THEN n <= MaxLen ELSE n >= 1
            /\ Read("destructure", [form |-> form, kind |-> kind, n |-> n, which |-> which],
                    IF form = "param"
                    THEN Stmts(<<Decl("ConstDeclNT", "f",
                                      Lambda(N("ParamNT", "", pattern, NilNode), name)),
                                 Call(Ident("f"), Args(<<x>>))>>)
                    ELSE Stmts(<<N("ConstDeclNT", "", pattern, x), name>>))

\* What the importing program evaluates after the import
Probes == <<
    [name |-> "alias", e |-> Ident("m")],
    [name |-> "field", e |-> BinOp("FieldAccessNT", Ident("m"), Ident("secret"))],
    [name |-> "var", e |-> BinOp("FieldAccessNT", Ident("m"), Ident("hidden"))],
    [name |-> "bare", e |-> Ident("secret")],
    [name |-> "get", e |-> Call(BinOp("FieldAccessNT", Ident("m"), Ident("get")), Args(<<>>))],
    [name |-> "peek", e |-> Call(BinOp("FieldAccessNT", Ident("m"), Ident("peek")), Args(<<>>))],
    \* (() => m.peek())()
    [name |-> "nested",
     e |-> Call(Lambda(Params(<<>>),
                       Call(BinOp("FieldAccessNT", Ident("m"), Ident("peek")), Args(<<>>))),
                Args(<<>>))] >>

\* x := v; import "<path>" as m; <probe>
EvalImport ==
    \E path \in {"./mod.rye", "mod.rye", "./lib/probe.rye", "./none.rye"}, v \in {1, 2},
       p \in 1..Len(Probes) :
        /\ lines = 0
        /\ Read("import", [path |-> path, v |-> v, probe |-> Probes[p].name],
                Stmts(<<Decl("ConstDeclNT", "x", IntLit(v)),
                        N("ImportNT", path, NilNode, Ident("m")),
                        Probes[p].e>>))

\* Expressions written as the right operand of |>, where, map, or as the
\* right-hand side of a declaration
Shorthands ==
    LET u == N("UnderscoreNT", "_", NilNode, NilNode) IN <<
    \* _ + 1
    BinOp("AddNT", u, IntLit(1)),
    \* v => v + 1
    Lambda(Params(<<"v">>), BinOp("AddNT", Ident("v"), IntLit(1))),
    \* v => _ + v
    Lambda(Params(<<"v">>), BinOp("AddNT", u, Ident("v"))),
    \* f
    Ident("f"),
    \* f(_)
    Call(Ident("f"), Args(<<u>>)),
    \* [_, _]
    ListLit(<<u, u>>),
    \* [1, _ + 1]
    ListLit(<<IntLit(1), BinOp("AddNT", u, IntLit(1))>>),
    \* {k: _}
    N("ObjectItemNT", "", N("KVPairNT", "", Ident("k"), u), NilNode),
    \* (_ map f)
    BinOp("MapNT", u, Ident("f")),
    \* ([_] where f)
    BinOp("WhereNT", ListLit(<<u>>), Ident("f")),
    \* (_ |> f) + 1
    BinOp("AddNT", BinOp("PipeNT", u, Ident("f")), IntLit(1)) >>

\* f := v => v * 2; [10, 11] map <e>   (or where, |>),   and   h := <e>; h(5)
\* pCompoundExprArg is Choice(pLambda, maybeFunc(pCondElseExpr)) and pDeclRhs
\* applies maybeFunc to any expression.
EvalShorthand ==
    \E op \in {"PipeNT", "WhereNT", "MapNT", "ConstDeclNT"}, i \in 1..Len(Shorthands) :
        LET e == Shorthands[i]
            f == Decl("ConstDeclNT", "f",
                      Lambda(Params(<<"v">>), BinOp("MultNT", Ident("v"), IntLit(2))))
        IN  /\ lines = 0
            /\ Read("shorthand", [op |-> op, i |-> i],
                    IF op = "ConstDeclNT"
                    THEN Stmts(<<f, N("ConstDeclNT", "", Ident("h"), maybeFunc(e)),
                                 Call(Ident("h"), Args(<<IntLit(5)>>))>>)
                    ELSE Stmts(<<f, BinOp(op, Container("list", 2),
                                          IF e.Type = "LambdaNT" THEN e ELSE maybeFunc(e))>>))

\* index                                  (when = "before")
\* [10, 11, ...] map (v => index)         (when = "during"; also where, find)
\* [10, 11, ...] map (v => index); index  (when = "after")
EvalTraverse ==
    \E op \in {"MapNT", "WhereNT", "FindNT"}, n \in 0..MaxLen,
       when \in {"before", "during", "after"} :
        LET index == N("IndexNT", "index", NilNode, NilNode)
            e == BinOp(op, Container("list", n), Lambda(Params(<<"v">>), index))
        IN  /\ lines = 0
            /\ Read("traverse", [op |-> op, n |-> n, when |-> when],
                    CASE when = "before" -> Stmts(<<index>>)
                      [] when = "during" -> Stmts(<<e>>)
                      [] when = "after" -> Stmts(<<e, index>>))

\* [c := 100;] var i := 0; var s := 0
\* while i < n { i += 1; [s += c;] c := i; s += c }     (or var c := i)
\* for v in [10, 11, ...] { [s += c;] c := v; s += c }  (or var c := v)
\* s                                                     (or c)
EvalLoopScope ==
    \E kind \in {"while", "for"}, n \in 0..MaxLen, outer \in BOOLEAN,
       decl \in {"ConstDeclNT", "VarDeclNT"}, probe \in {"s", "c"} :
        LET body(first, e) ==
                Stmts(first \o (IF outer THEN <<CompoundAssign("AddNT", "s", Ident("c"))>>
                                ELSE <<>>)
                      \o <<Decl(decl, "c", e), CompoundAssign("AddNT", "s", Ident("c"))>>)
            loop == IF kind = "while"
                    THEN While(BinOp("LessNT", Ident("i"), IntLit(n)),
                               body(<<CompoundAssign("AddNT", "i", IntLit(1))>>, Ident("i")))
                    ELSE For("v", Container("list", n), body(<<>>, Ident("v")))
        IN  /\ lines = 0
            /\ Read("scope", [kind |-> kind, n |-> n, outer |-> outer, decl |-> decl,
                              probe |-> probe],
                    Stmts((IF outer THEN <<Decl("ConstDeclNT", "c", IntLit(100))>> ELSE <<>>)
                          \o <<Decl("VarDeclNT", "i", IntLit(0)),
                               Decl("VarDeclNT", "s", IntLit(0)),
                               loop, Ident(probe)>>))

\* if true { c := 1 }           (or var c := 1), followed by  c  or by  c := 2; c
\* unless false { c := 1 }
\* if false { d := 0 } else { c := 1 }
\* pStmtBody is the pStmts chain of the braces; nElse puts the two branches
\* under one node and unless negates the condition.
EvalBlockScope ==
    \E form \in {"if", "unless", "else"}, decl \in {"ConstDeclNT", "VarDeclNT"},
       probe \in {"resolve", "redeclare"} :
        LET body == Stmts(<<Decl(decl, "c", IntLit(1))>>)
            stmt == CASE form = "if" -> If(BoolLit(TRUE), body)
                      [] form = "unless" -> If(UnOp("LogicNotNT", BoolLit(FALSE)), body)
                      [] form = "else" ->
                           If(BoolLit(FALSE),
                              N("ThenBranchNT", "",
                                Stmts(<<Decl(decl, "d", IntLit(0))>>), body))
        IN  /\ lines = 0
            /\ Read("block", [form |-> form, decl |-> decl, probe |-> probe],
                    Stmts(<<stmt>> \o (IF probe = "redeclare"
                                       THEN <<Decl("ConstDeclNT", "c", IntLit(2))>>
                                       ELSE <<>>)
                          \o <<Ident("c")>>))

\* s := {1, 2}; add(s, x) or remove(s, x), up to MaxSetOps times;
\* [#s, 1 in s, 2 in s, 3 in s]
EvalSet ==
    \E k \in 0..MaxSetOps, fs \in [1..MaxSetOps -> {"add", "remove"}],
       xs \in [1..MaxSetOps -> 1..3] :
        LET s == Ident("s")
            in(x) == BinOp("InNT", IntLit(x), s)
        IN  /\ \A i \in (k + 1)..MaxSetOps : fs[i] = "add" /\ xs[i] = 1
            /\ lines = 0
            /\ Read("set", [i \in 1..k |-> [f |-> fs[i], x |-> xs[i]]],
                    Stmts(<<Decl("ConstDeclNT", "s",
                                 N("SetItemNT", "", IntLit(1),
                                   N("SetItemNT", "", IntLit(2), NilNode)))>>
                          \o [i \in 1..k |-> Call(Ident(fs[i]), Args(<<s, IntLit(xs[i])>>))]
                          \o <<ListLit(<<UnOp("CardinalityNT", s), in(1), in(2), in(3)>>)>>))

\* mk := n => (() => n); c := mk(v); id := f => f; get := () => c
\* then nothing, or d := id(c), or d := get(); then c() or d()
EvalClosure ==
    \E via \in {"none", "id", "get"}, v \in 1..MaxOperand, probe \in {"c", "d"} :
        /\ lines = 0
        /\ via = "none" => probe = "c"
        /\ Read("closure", [via |-> via, v |-> v, probe |-> probe],
                Stmts(<<Decl("ConstDeclNT", "mk",
                             Lambda(Params(<<"n">>), Lambda(Params(<<>>), Ident("n")))),
                        Decl("ConstDeclNT", "c", Call(Ident("mk"), Args(<<IntLit(v)>>))),
                        Decl("ConstDeclNT", "id", Lambda(Params(<<"f">>), Ident("f"))),
                        Decl("ConstDeclNT", "get", Lambda(Params(<<>>), Ident("c")))>>
                      \o (CASE via = "none" -> <<>>
                            [] via = "id" ->
                                 <<Decl("ConstDeclNT", "d",
                                        Call(Ident("id"), Args(<<Ident("c")>>)))>>
                            [] via = "get" ->
                                 <<Decl("ConstDeclNT", "d", Call(Ident("get"), Args(<<>>)))>>)
                      \o <<Call(Ident(probe), Args(<<>>))>>))

\* var s := 0
\* for v in [10, 11, ...] { if v == b { break }; if v == c { continue }; s += v }
\* s
EvalFor ==
    \E n \in 0..MaxLen, b \in 9..(10 + MaxLen), c \in 9..(10 + MaxLen) :
        /\ lines = 0
        /\ Read("for", [n |-> n, b |-> b, c |-> c],
                Stmts(<<Decl("VarDeclNT", "s", IntLit(0)),
                        For("v", Container("list", n),
                            Stmts(<<If(BinOp("EqualNT", Ident("v"), IntLit(b)),
                                       Stmts(<<Break>>)),
                                    If(BinOp("EqualNT", Ident("v"), IntLit(c)),
                                       Stmts(<<Continue>>)),
                                    CompoundAssign("AddNT", "s", Ident("v"))>>)),
                        Ident("s")>>))

\* [a == b, b == a]   and   [a != b, b != a]
EvalEquality ==
    LET str(x) == N("StringNT", x, NilNode, NilNode)
        operands == <<IntLit(1), IntLit(2), FloatLit(1, 1), FloatLit(3, 2), str("1"), str("a"),
                      BoolLit(TRUE), N("NullNT", "", NilNode, NilNode),
                      N("SuccessNT", "", NilNode, NilNode), N("FailNT", "", NilNode, NilNode),
                      ListLit(<<>>), ListLit(<<IntLit(1)>>), ListLit(<<str("1")>>)>>
    IN  \E op \in {"EqualNT", "NotEqualNT"}, a \in 1..Len(operands), b \in 1..Len(operands) :
            /\ lines = 0
            /\ Read("equality", [op |-> op, a |-> a, b |-> b],
                    Stmts(<<ListLit(<<BinOp(op, operands[a], operands[b]),
                                      BinOp(op, operands[b], operands[a])>>)>>))

NextFile ==
    \/ EvalFallback \/ EvalIndex \/ EvalSlice \/ EvalStore \/ EvalDerive \/ EvalMapWhere
    \/ EvalDestructure \/ EvalImport \/ EvalShorthand \/ EvalTraverse \/ EvalLoopScope
    \/ EvalBlockScope \/ EvalSet \/ EvalClosure \/ EvalFor \/ EvalEquality
    \/ RunLine \/ Restart

SpecFile == InitMode("file") /\ [][NextFile]_vars

-----------------------------------------------------------------------------
(* SpecScan: Scan on every source string of up to MaxSrc characters of     *)
(* SrcChars.  A source is a sequence of characters; a token is its type,   *)
(* line and lexeme.  The result of Scan is the token slice (kind           *)
(* "tokens"), the nil slice (kind "nil") or a runtime panic (kind "panic").*)

SrcChars == {"\n", " ", "}", "+", "=", "/", ".", "\"", "\\", "1", "i", "n"}
Sources == UNION {[1..k -> SrcChars] : k \in 0..MaxSrc}

Scan(src) ==
    LET Chars(s) == {SubSeq(s, i, i) : i \in 1..Len(s)}
        Drop(s, k) == SubSeq(s, k + 1, Len(s))
        Nil == [kind |-> "nil", tokens |-> <<>>]
        Token(tt, line, lexeme) == [tt |-> tt, line |-> line, lexeme |-> lexeme]
        isAlpha == Chars("abcdefghijklmnopqrstuvwxyzABCDEFGHIJKLMNOPQRSTUVWXYZ_")
        isDigit == Chars("0123456789")
        isAlphaNumeric == isAlpha \cup isDigit
        \* the token type, or "" when the map has no such key
        scanTwoRune(a, b) ==
            LET k == a \o b
            IN  CASE k = "=>" -> "ArrowTT" [] k = "<-" -> "LeftArrowTT"
                  [] k = "!=" -> "BangEqualTT" [] k = "==" -> "EqualEqualTT"
                  [] k = ">=" -> "GreaterEqualTT" [] k = "<=" -> "LessEqualTT"
                  [] k = ":=" -> "ColonEqualTT" [] k = "-=" -> "MinusEqualTT"
                  [] k = "+=" -> "PlusEqualTT" [] k = "/=" -> "SlashEqualTT"
                  [] k = "*=" -> "StarEqualTT" [] k = "%=" -> "ModuloEqualTT"
                  [] k = ".." -> "DotDotTT" [] k = "//" -> "CommentTT"
                  [] k = "|=" -> "BarEqualTT" [] k = "|>" -> "PipeTT"
                  [] OTHER -> ""
        scanOneRune(r) ==
            CASE r = "(" -> "LeftParenTT" [] r = ")" -> "RightParenTT"
              [] r = "{" -> "LeftBraceTT" [] r = "}" -> "RightBraceTT"
              [] r = "[" -> "LeftBracketTT" [] r = "]" -> "RightBracketTT"
              [] r = ":" -> "ColonTT" [] r = "," -> "CommaTT" [] r = "." -> "DotTT"
              [] r = "-" -> "MinusTT" [] r = "+" -> "PlusTT" [] r = ";" -> "SemicolonTT"
              [] r = "/" -> "SlashTT" [] r = "*" -> "StarTT" [] r = "%" -> "ModuloTT"
              [] r = "!" -> "BangTT" [] r = "=" -> "EqualTT" [] r = ">" -> "GreaterTT"
              [] r = "<" -> "LessTT" [] r = "?" -> "QuestionMarkTT" [] r = "|" -> "BarTT"
              [] r = "#" -> "HashTT" [] r = "^" -> "CaratTT" [] r = "_" -> "UnderscoreTT"
              [] OTHER -> ""
        scanKeyword(s) ==
            CASE s = "and" -> "AndTT" [] s = "break" -> "BreakTT"
              [] s = "continue" -> "ContinueTT" [] s = "else" -> "ElseTT"
              [] s = "false" -> "FalseTT" [] s = "for" -> "ForTT" [] s = "if" -> "IfTT"
              [] s = "null" -> "NullTT" [] s = "or" -> "OrTT" [] s = "return" -> "ReturnTT"
              [] s = "true" -> "TrueTT" [] s = "while" -> "WhileTT"
              [] s = "until" -> "UntilTT" [] s = "unless" -> "UnlessTT"
              [] s = "fail" -> "FailTT" [] s = "success" -> "SuccessTT"
              [] s = "map" -> "MapTT" [] s = "where" -> "WhereTT" [] s = "in" -> "InTT"
              [] s = "var" -> "VarTT" [] s = "_" -> "UnderscoreTT"
              [] s = "index" -> "IndexTT" [] s = "import" -> "ImportTT"
              [] s = "as" -> "AsTT" [] s = "then" -> "PipeTT" [] s = "find" -> "FindTT"
              [] s = "fold" -> "FoldTT" [] s = "bind" -> "PipeTT" [] s = "each" -> "MapTT"
              [] OTHER -> ""
        \* the longest prefix of rem whose characters are in is, as a string,
        \* and the rest of rem (scanDigits, scanIdentifier)
        RECURSIVE scanWhile(_, _, _)
        scanWhile(is, rem, s) ==
            IF Len(rem) > 0 /\ rem[1] \in is THEN scanWhile(is, Drop(rem, 1), s \o rem[1])
            ELSE <<s, rem>>
        RECURSIVE scanComment(_)
        scanComment(rem) ==
            IF Len(rem) = 0 \/ rem[1] = "\n" THEN rem ELSE scanComment(Drop(rem, 1))
        \* strconv.Unquote of the text between the quotes; "" when it ends in an
        \* error (a raw newline, an unknown or incomplete escape; an octal escape
        \* takes three digits)
        RECURSIVE Unquote(_, _)
        Unquote(cs, s) ==
            IF Len(cs) = 0 THEN s
            ELSE IF cs[1] = "\n" THEN ""
            ELSE IF cs[1] # "\\" THEN Unquote(Drop(cs, 1), s \o cs[1])
            ELSE IF Len(cs) < 2 THEN ""
            ELSE CASE cs[2] \in {"\\", "\""} -> Unquote(Drop(cs, 2), s \o cs[2])
                   [] cs[2] = "n" -> Unquote(Drop(cs, 2), s \o "\n")
                   [] cs[2] = "t" -> Unquote(Drop(cs, 2), s \o "\t")
                   [] cs[2] = "r" -> Unquote(Drop(cs, 2), s \o "\r")
                   [] cs[2] = "f" -> Unquote(Drop(cs, 2), s \o "\f")
                   [] OTHER -> ""
        \* the loop of scanString from position i (from 1); ln = -1 when the
        \* string is not terminated
        RECURSIVE scanString(_, _, _)
        scanString(rem, i, line) ==
            IF i > Len(rem) THEN [t |-> Token("", 0, ""), rem |-> <<>>, ln |-> -1]
            ELSE LET ln == IF rem[i] = "\n" THEN line + 1 ELSE line
                 IN  IF rem[i] = "\\" THEN scanString(rem, i + 2, ln)
                     ELSE IF rem[i] = "\""
                     THEN [t |-> Token("StringTT", ln, Unquote(SubSeq(rem, 2, i - 1), "")),
                           rem |-> Drop(rem, i - 1), ln |-> ln]
                     ELSE scanString(rem, i + 1, ln)
        RECURSIVE scan(_, _, _)
        scan(scanned, remaining, line) ==
            IF Len(remaining) = 0
            THEN [kind |-> "tokens",
                  tokens |-> scanned \o <<Token("NewLineTT", line, ""),
                                          Token("EOFTT", line, "\\x00")>>]
            ELSE
            LET r == remaining[1] IN
            CASE r = "\n" ->
                   scan(Append(scanned, Token("NewLineTT", line, "")),
                        Drop(remaining, 1), line + 1)
              [] r \in {"\t", "\r", " "} -> scan(scanned, Drop(remaining, 1), line)
              [] r \in Chars("(){}[];,?^#_") ->
                   LET tt == scanOneRune(r) IN
                   IF tt = "" THEN Nil
                   ELSE scan((IF tt = "RightBraceTT"
                              THEN Append(scanned, Token("NewLineTT", line, ""))
                              ELSE scanned) \o <<Token(tt, line, r)>>,
                             Drop(remaining, 1), line)
              [] r \in Chars("!=><:-+/*%|") ->
                   \* scanTwoRune(r, remaining[1]): the index is out of range
                   \* when r is the last character
                   IF Len(remaining) < 2 THEN [kind |-> "panic", tokens |-> <<>>]
                   ELSE LET tt == scanTwoRune(r, remaining[2]) IN
                        IF tt = "CommentTT" THEN scan(scanned, scanComment(remaining), line)
                        ELSE IF tt # ""
                        THEN scan(Append(scanned, Token(tt, line, r \o remaining[2])),
                                  Drop(remaining, 2), line)
                        ELSE IF scanOneRune(r) # ""
                        THEN scan(Append(scanned, Token(scanOneRune(r), line, r)),
                                  Drop(remaining, 1), line)
                        ELSE Nil
              [] r = "." ->
                   IF Len(remaining) > 1
                   THEN LET n == remaining[2] IN
                        IF n = "."
                        THEN IF Len(remaining) > 2 /\ remaining[3] = "."
                             THEN scan(Append(scanned, Token("DotDotDotTT", line, "...")),
                                       Drop(remaining, 3), line)
                             ELSE scan(Append(scanned, Token("DotDotTT", line, r \o n)),
                                       Drop(remaining, 2), line)
                        ELSE IF n \in isDigit
                        THEN LET ds == scanWhile(isDigit, Drop(remaining, 1), "")
                             IN  scan(Append(scanned, Token("FloatTT", line, "." \o ds[1])),
                                      ds[2], line)
                        ELSE scan(Append(scanned, Token("DotTT", line, r)),
                                  Drop(remaining, 1), line)
                   ELSE Nil
              [] r = "\"" ->
                   LET s == scanString(remaining, 2, line) IN
                   IF s.ln = -1 THEN Nil
                   ELSE scan(Append(scanned, s.t), Drop(s.rem, 1), s.ln)
              [] r \in isDigit ->
                   LET n == scanWhile(isDigit, remaining, "") IN
                   IF Len(n[2]) > 0 /\ n[2][1] = "."
                   THEN IF Len(n[2]) > 1 /\ n[2][2] = "."
                        THEN scan(Append(scanned, Token("IntTT", line, n[1])), n[2], line)
                        ELSE LET m == scanWhile(isDigit, Drop(n[2], 1), "")
                             IN  scan(Append(scanned,
                                             Token("FloatTT", line, n[1] \o "." \o m[1])),
                                      m[2], line)
                   ELSE scan(Append(scanned, Token("IntTT", line, n[1])), n[2], line)
              \* the case of the character _ comes first in the switch
              [] r \in isAlpha \ {"_"} ->
                   LET s == scanWhile(isAlphaNumeric, remaining, "")
                       tt == scanKeyword(s[1])
                   IN  scan(Append(scanned,
                                   Token(IF tt # "" THEN tt ELSE "IdentifierTT", line, s[1])),
                            s[2], line)
              [] OTHER -> Nil
    IN  scan(<<>>, src, 1)

\* The source that is read
InitScan ==
    /\ mode = "scan"
    /\ envs = <<StdLibEnv, TopEnv>>
    /\ nodes = <<>>
    /\ arrs = <<>>
    /\ objs = <<>>
    /\ born = <<>>
    /\ cur = Top
    /\ last = NoLast
    /\ log = <<>>
    /\ lines = 0
    /\ hist = <<>>
    /\ pending \in {[op |-> "scan", arg |-> src, prog |-> NilNode] : src \in Sources}

RunScan ==
    /\ pending.op = "scan"
    /\ last' = [op |-> "scan", arg |-> pending.arg, res |-> Scan(pending.arg), err |-> "",
                raised |-> FALSE, env |-> cur]
    /\ pending' = NoLine
    /\ UNCHANGED <<envs, nodes, arrs, objs, born, cur, log, lines, mode, hist>>

SpecScan == InitScan /\ [][RunScan]_vars

-----------------------------------------------------------------------------
(* SpecParse: a parser applied to a token list.  A parser is a record that *)
(* names the consumer or combinator that made it (op), its token type (tt),*)
(* its Nodify function (n) and its operand parsers (a, b, ps); Run is the  *)
(* closure the constructor returns.  A ParseRes is [ok, err, node, parsed, *)
(* tokens]; the nil slice of tokens is the empty sequence.                 *)

NoToken == [Type |-> "nil", Lexeme |-> 0]

\* nRhs: the node of the first result with the node of the second as its R;
\* get2Results wants both results ok and with a node
nRhs(op, rhs) ==
    IF ~op.ok \/ ~rhs.ok \/ op.node.Type = "nil" \/ rhs.node.Type = "nil" THEN NilNode
    ELSE IF op.node.Type \in
              {"LogicOrNT", "LogicAndNT", "EqualNT", "NotEqualNT", "LessNT", "LessEqualNT",
               "GreaterNT", "GreaterEqualNT", "AddNT", "SubtNT", "MultNT", "DivNT",
               "ModuloNT", "FallbackNT", "PowerNT", "ParamNT", "LambdaNT", "MapNT",
               "WhereNT", "PipeNT", "VarDeclNT", "ConstDeclNT", "IfNT", "WhileStmtNT",
               "ForStmtNT", "CallNT", "ArgNT", "SliceNT", "KVPairNT", "ImportNT",
               "SetItemNT", "InNT", "IdentifierNT"}
    THEN N(op.node.Type, op.node.Val, op.node.L, rhs.node)
    ELSE NilNode

RECURSIVE Run(_, _)
Run(p, curr) ==
    LET ParseRes(ok, err, node, parsed, tokens) ==
            [ok |-> ok, err |-> err, node |-> node, parsed |-> parsed, tokens |-> tokens]
        fail(message) == ParseRes(FALSE, message, NilNode, NoToken, <<>>)
        failed(err) == ParseRes(FALSE, err, NilNode, NoToken, curr.tokens)
        \* the node type of the token type, "" when the map has no such key
        operatorMap(tt) ==
            CASE tt = "BangEqualTT" -> "NotEqualNT" [] tt = "DotDotTT" -> "RangeNT"
              [] tt = "EqualTT" -> "AssignmentNT" [] tt = "EqualEqualTT" -> "EqualNT"
              [] tt = "GreaterTT" -> "GreaterNT" [] tt = "GreaterEqualTT" -> "GreaterEqualNT"
              [] tt = "LessTT" -> "LessNT" [] tt = "LessEqualTT" -> "LessEqualNT"
              [] tt = "BarTT" -> "FallbackNT" [] tt = "PlusTT" -> "AddNT"
              [] tt = "MinusTT" -> "SubtNT" [] tt = "StarTT" -> "MultNT"
              [] tt = "SlashTT" -> "DivNT" [] tt = "ModuloTT" -> "ModuloNT"
              [] tt = "CaratTT" -> "PowerNT" [] tt = "InTT" -> "InNT"
              [] tt = "AndTT" -> "LogicAndNT" [] tt = "OrTT" -> "LogicOrNT"
              [] tt = "PipeTT" -> "PipeNT" [] tt = "MapTT" -> "MapNT"
              [] tt = "WhereTT" -> "WhereNT" [] tt = "FindTT" -> "FindNT"
              [] tt \in {"IfTT", "UnlessTT"} -> "IfNT" [] tt = "ArrowTT" -> "LambdaNT"
              [] tt \in {"ColonEqualTT", "LeftArrowTT"} -> "ConstDeclNT"
              [] tt \in {"WhileTT", "UntilTT"} -> "WhileStmtNT" [] tt = "ForTT" -> "ForStmtNT"
              [] tt = "BreakTT" -> "BreakNT" [] tt = "ContinueTT" -> "ContinueNT"
              [] tt = "IndexTT" -> "IndexNT" [] tt = "DotDotDotTT" -> "SplatNT"
              [] OTHER -> ""
        unaryMap(tt) ==
            CASE tt = "MinusTT" -> "UnaryNegNT" [] tt = "BangTT" -> "LogicNotNT"
              [] tt = "HashTT" -> "CardinalityNT" [] tt = "QuestionMarkTT" -> "MaybeNT"
              [] tt = "DotDotDotTT" -> "SplatNT"
              [] OTHER -> ""
        \* the tokens after the leading newlines, for a parser of another type
        RECURSIVE skip(_)
        skip(tokens) ==
            IF p.tt # "NewLineTT" /\ Len(tokens) > 0 /\ tokens[1].Type = "NewLineTT"
            THEN skip(Tail(tokens))
            ELSE tokens
        \* takeFirst, takeSecond and nRhs of nodify.go
        nodify(resA, resB) ==
            CASE p.n = "takeFirst" -> resA.node
              [] p.n = "takeSecond" -> resB.node
              [] p.n = "nRhs" -> nRhs(resA, resB)
        built(resA, resB) == IF p.n = "nil" THEN resB ELSE [resB EXCEPT !.node = nodify(resA, resB)]
        \* pOperator and pOperatorUnary from the test of the token on
        operator(op) ==
            LET tokens == skip(curr.tokens) IN
            IF Len(tokens) = 0 THEN fail("Tokens exhausted")
            ELSE IF tokens[1].Type # p.tt THEN fail("No match")
            ELSE IF op = "" THEN fail("Unknown operator")
            ELSE ParseRes(TRUE, "", N(op, "", NilNode, NilNode), NoToken, Tail(tokens))
        \* the loop of Star and Plus
        RECURSIVE loop(_, _)
        loop(prev, res) ==
            IF ~res.ok THEN prev
            ELSE LET next == Run(p.a, res)
                 IN  IF next.ok THEN loop(built(prev, next), built(prev, next))
                     ELSE loop(prev, next)
        RECURSIVE choice(_)
        choice(i) ==
            IF i > Len(p.ps) THEN ParseRes(FALSE, "", NilNode, NoToken, curr.tokens)
            ELSE LET res == Run(p.ps[i], curr)
                 IN  IF res.ok THEN res ELSE choice(i + 1)
        then(resA) ==
            IF ~resA.ok THEN failed(resA.err)
            ELSE LET resB == Run(p.b, resA) IN
                 CASE p.op = "Then" -> IF resB.ok THEN built(resA, resB) ELSE failed(resB.err)
                   [] p.op = "ThenNot" -> IF resB.ok THEN fail("ThenNot failed") ELSE resA
                   [] p.op = "ThenMaybe" -> IF resB.ok THEN built(resA, resB) ELSE resA
                   [] p.op = "ThenPeek" -> IF resB.ok THEN resA ELSE failed(resA.err)
    IN
    CASE p.op = "pToken" ->
           IF ~curr.ok THEN curr
           ELSE LET tokens == skip(curr.tokens) IN
                IF Len(tokens) = 0 THEN fail("Tokens exhausted")
                ELSE IF tokens[1].Type # p.tt THEN failed("Parsing error. Expected " \o p.tt)
                ELSE ParseRes(TRUE, "",
                              IF p.n = "nIdentifier"
                              THEN N("IdentifierNT", tokens[1].Lexeme, NilNode, NilNode)
                              ELSE NilNode,
                              tokens[1], Tail(tokens))
      [] p.op = "pOperator" -> IF ~curr.ok THEN curr ELSE operator(operatorMap(p.tt))
      [] p.op = "pOperatorUnary" -> operator(unaryMap(p.tt))
      [] p.op \in {"Then", "ThenNot", "ThenMaybe", "ThenPeek"} ->
           IF ~curr.ok THEN curr ELSE then(Run(p.a, curr))
      [] p.op = "Either" ->
           LET resA == Run(p.a, curr) IN
           IF resA.ok THEN resA
           ELSE LET resB == Run(p.b, curr) IN
                IF resB.ok THEN resB ELSE ParseRes(FALSE, "", NilNode, NoToken, curr.tokens)
      [] p.op = "Choice" -> choice(1)
      [] p.op = "Star" ->
           \* prev := curr; res := p(curr, n)
           LET prev == loop(curr, Run(p.a, curr))
           IN  ParseRes(TRUE, "", prev.node, NoToken, prev.tokens)
      [] p.op = "Plus" ->
           \* res := p(curr, nil); prev := res
           LET res == Run(p.a, curr) IN
           IF ~res.ok THEN ParseRes(FALSE, "", NilNode, NoToken, curr.tokens)
           ELSE loop(res, res)
      [] p.op = "Peek" ->
           IF ~curr.ok THEN curr
           ELSE LET resA == Run(p.a, curr) IN
                IF resA.ok THEN ParseRes(TRUE, "", NilNode, NoToken, curr.tokens)
                ELSE failed(resA.err)

\* Wrapped(left, target, right)
Wrapped(left, target, right) ==
    [op |-> "Then", n |-> "takeSecond", a |-> [op |-> "pToken", tt |-> left, n |-> "nil"],
     b |-> [op |-> "Then", n |-> "takeFirst", a |-> target,
            b |-> [op |-> "pToken", tt |-> right, n |-> "nil"]]]

\* The token consumers: an identifier-like token with a node, a token in both
\* operator maps, and the newline
TokenTypes == {"NewLineTT", "MinusTT", "IntTT"}
Atoms ==
    {[op |-> "pToken", tt |-> "IntTT", n |-> "nIdentifier"],
     [op |-> "pToken", tt |-> "MinusTT", n |-> "nil"],
     [op |-> "pToken", tt |-> "NewLineTT", n |-> "nil"]}
    \cup {[op |-> o, tt |-> tt] : o \in {"pOperator", "pOperatorUnary"},
                                   tt \in {"MinusTT", "IntTT"}}

\* Every combinator on parsers of ps.  Star and Plus stay on operands that
\* consume a token when they match (their loop does not end on others).
Combined(ps) ==
    {[op |-> o, n |-> "nRhs", a |-> a, b |-> b] :
        o \in {"Then", "ThenMaybe", "ThenPeek"}, a \in ps, b \in ps}
    \cup {[op |-> "Then", n |-> "nil", a |-> a, b |-> b] : a \in ps, b \in ps}
    \cup {[op |-> o, a |-> a, b |-> b] : o \in {"ThenNot", "Either"}, a \in ps, b \in ps}
    \cup {[op |-> "Choice", ps |-> <<a, b, [op |-> "pToken", tt |-> "NewLineTT", n |-> "nil"]>>] :
             a \in ps, b \in ps}
    \cup {[op |-> o, n |-> "nRhs", a |-> a] : o \in {"Star", "Plus"}, a \in ps}
    \cup {[op |-> "Peek", a |-> a] : a \in ps}
    \cup {Wrapped("MinusTT", a, "MinusTT") : a \in ps}

Parsers ==
    Atoms \cup Combined(Atoms)
    \cup {[op |-> o, n |-> "nRhs", a |-> [op |-> "Then", n |-> n, a |-> a, b |-> b]] :
             o \in {"Star", "Plus"}, n \in {"nRhs", "takeFirst"}, a \in Atoms, b \in Atoms}

\* Token lists of up to MaxTokens tokens; the lexeme of a token is its position
TokenLists ==
    UNION {{[i \in 1..k |-> [Type |-> ts[i], Lexeme |-> i]] : ts \in [1..k -> TokenTypes]} :
              k \in 0..MaxTokens}

\* The state a parser is applied to
Start(tokens) == [ok |-> TRUE, err |-> "", node |-> NilNode, parsed |-> NoToken,
                  tokens |-> tokens]

InitParse ==
    /\ mode = "parse"
    /\ envs = <<StdLibEnv, TopEnv>>
    /\ nodes = <<>>
    /\ arrs = <<>>
    /\ objs = <<>>
    /\ born = <<>>
    /\ cur = Top
    /\ last = NoLast
    /\ log = <<>>
    /\ lines = 0
    /\ hist = <<>>
    /\ pending \in {[op |-> "parse", arg |-> [p |-> p, tokens |-> ts], prog |-> NilNode] :
                       p \in Parsers, ts \in TokenLists}

RunParse ==
    /\ pending.op = "parse"
    /\ last' = [op |-> "parse", arg |-> pending.arg,
                res |-> Run(pending.arg.p, Start(pending.arg.tokens)), err |-> "",
                raised |-> FALSE, env |-> cur]
    /\ pending' = NoLine
    /\ UNCHANGED <<envs, nodes, arrs, objs, born, cur, log, lines, mode, hist>>

SpecParse == InitParse /\ [][RunParse]_vars

-----------------------------------------------------------------------------
\* A value as it reads: a list by its elements, anything else as it is
Shown(n) ==
    IF n.Type = "ListNT" THEN [Type |-> "ListNT", items |-> ListOf(n, St)] ELSE n

\* C11: the fallback operator.  For operands that evaluate to the values v
\* and w, `v | w` evaluates without error to w when v is fail and to v for
\* every other v, also when v is falsy (0, false, "", null, the empty list).
C11_Fallback ==
    last.op = "fallback" =>
        /\ last.err = ""
        /\ Shown(last.res) = IF last.arg.v.Type = "FailNT" THEN last.arg.w ELSE last.arg.v

\* The falsy value 0 was kept although a fallback was given
C11_Witness ==
    /\ last.op = "fallback"
    /\ last.arg.v = newInt(0)
    /\ last.arg.w = newInt(1)
    /\ last.res = newInt(0)


\* The element at position p (from 0) of the container of Container(kind, n)
ElementAt(kind, p) ==
    IF kind = "list" THEN newInt(10 + p) ELSE newString(SubSeq("abcdefgh", p + 1, p + 1))

\* C12: x[i] on a list or a string of length n, with an integer index or a
\* float index truncated to an integer, never ends in a hard error or a
\* crash: it yields element i for 0 <= i < n, element n + i for -n <= i < 0
\* and fail for every other i.
C12_IndexAccess ==
    last.op = "index" =>
        /\ last.err = ""
        /\ last.res = LET a == last.arg IN
                      IF 0 <= a.i /\ a.i < a.n THEN ElementAt(a.kind, a.i)
                      ELSE IF -a.n <= a.i /\ a.i < 0 THEN ElementAt(a.kind, a.n + a.i)
                      ELSE FAIL


\* i clamped to the range 0..n
Clamp(i, n) == IF i < 0 THEN 0 ELSE IF i > n THEN n ELSE i

\* C13: slicing x[a..b] of a list or string of length n never ends in a hard
\* error or a crash.  An absent start is 0 and an absent end is n; both bounds
\* are clamped to 0..n; the result holds the elements from the clamped start
\* (inclusive) to the clamped end (exclusive), and is empty when the start is
\* not below the end.
C13_SliceClamps ==
    last.op = "slice" =>
        /\ last.err = ""
        /\ LET x == last.arg
               s == IF x.hasA THEN Clamp(x.a, x.n) ELSE 0
               e == IF x.hasB THEN Clamp(x.b, x.n) ELSE x.n
           IN  IF x.kind = "string"
               THEN last.res = newString(IF s < e THEN SubSeq("abcdefgh", s + 1, e) ELSE "")
               ELSE /\ last.res.Type = "ListNT"
                    /\ ListOf(last.res, St)
                         = IF s < e THEN [k \in 1..(e - s) |-> newInt(9 + s + k)] ELSE <<>>


\* C14: after an assignment through an accessor (a[i] = v, a.k = v,
\* a["k"] = v, a.list[i] = v) the read of the same position, through the same
\* name or through another reference to the same container, yields v.
C14_StoreInPlace ==
    last.op = "store" => last.err = "" /\ last.res = newInt(last.arg.v)


\* The list [10, 11, ...] of length n, with its first element replaced by 9
\* when stored is true
Elements(n, stored) == [k \in 1..n |-> IF stored /\ k = 1 THEN newInt(9) ELSE newInt(9 + k)]

\* C15: b is the result of list +, append, map or where on the list a.  After
\* a later such operation on a, or a later assignment a[0] = 9 or b[0] = 9,
\* a holds its own elements (changed only by an assignment to a) and b holds
\* what its operation produced (changed only by an assignment to b).
C15_FreshContainers ==
    last.op = "derive" =>
        /\ last.err = ""
        /\ LET x == last.arg
               a == Elements(x.n, x.then = "store a")
               b == Elements(x.n, x.then = "store b")
           IN  /\ ListOf(envs[cur].Vars["a"], St) = a
               /\ ListOf(envs[cur].Vars["b"], St)
                    = IF x.op \in {"plus", "append"} THEN Append(b, newInt(4)) ELSE b
               /\ last.res = envs[cur].Vars["b"]


\* The value of the callable named f applied to the integer v
Applied(f, v) ==
    CASE f = "inc" -> newInt(v + 1)
      [] f = "typeof" -> newString("Int")
      [] f = "g" -> newInt(2 * v)
      [] f = "odd" -> newInt(v % 2)
      [] f = "gt" -> newBool(v > 10)
      [] OTHER -> FAIL

\* Whether that value is truthy
Kept(f, v) ==
    CASE f \in {"inc", "typeof", "g"} -> TRUE
      [] f = "odd" -> v % 2 = 1
      [] f = "gt" -> v > 10
      [] OTHER -> FALSE

\* C16: for a list L and a callable f, L map f is the list of f(L[i]) in
\* order, of the length of L, and L where f is the subsequence of L of the
\* elements whose application is truthy; a left operand that is not a
\* collection yields fail.
C16_MapWhere ==
    last.op = "mapwhere" =>
        /\ last.err = ""
        /\ LET x == last.arg
               L == Elements(x.n, FALSE)
           IN  IF x.kind # "list" THEN last.res = FAIL
               ELSE /\ last.res.Type = "ListNT"
                    /\ ListOf(last.res, St)
                         = IF x.op = "MapNT"
                           THEN [i \in 1..x.n |-> Applied(x.f, L[i].Val)]
                           ELSE SelectSeq(L, LAMBDA e : Kept(x.f, e.Val))

\* [10, 11, 12] where (v => v % 2) is [11].
C16_Witness ==
    /\ last.op = "mapwhere"
    /\ last.arg = [op |-> "WhereNT", kind |-> "list", n |-> 3, f |-> "odd"]
    /\ last.res.Type = "ListNT"
    /\ ListOf(last.res, St) = <<newInt(11)>>


\* C17: the pattern [a, b, c], as a parameter or as a declaration target,
\* given a list of length n binds the first min(3, n) names to the elements
\* and the other names to fail, and given a non-list binds every name to
\* fail; there is no error and no crash.
C17_Destructuring ==
    last.op = "destructure" =>
        /\ last.err = ""
        /\ last.res = IF last.arg.kind = "list" /\ last.arg.which <= last.arg.n
                      THEN newInt(9 + last.arg.which)
                      ELSE FAIL


\* C18: after import "<path>" as m of a module that defines secret, the
\* module value is bound to m in the top-most environment, the bare name
\* secret is undefined in the importing program, and no code of the module
\* reads the importing program's x: neither the module's top level (leak := x)
\* nor the module function peek := () => x called as m.peek().
C18_ModuleIsolation ==
    last.op = "import" /\ last.arg.path # "./none.rye" =>
        /\ last.err # PANIC
        /\ IF last.arg.path = "./lib/probe.rye"
           THEN ~Has(envs[1].Consts, "m")
           ELSE /\ Has(envs[1].Consts, "m")
                /\ envs[1].Consts["m"].Type = "ModuleNT"
                /\ ~Has(envs[cur].Consts, "secret") /\ ~Has(envs[cur].Vars, "secret")
                /\ last.arg.probe = "alias" => last.res = envs[1].Consts["m"]
                /\ last.arg.probe = "field" => last.res = newInt(42)
                /\ last.arg.probe = "bare" => last.err = "is undefined"
                /\ last.arg.probe \in {"peek", "nested"} => last.res # newInt(last.arg.v)


\* Whether the subtree of n holds a node of one of the types, anywhere: below
\* L, below R, or among the elements of a list literal
RECURSIVE Holds(_, _)
Holds(n, types) ==
    /\ n.Type # "nil"
    /\ \/ n.Type \in types
       \/ Holds(n.L, types)
       \/ Holds(n.R, types)
       \/ n.Type = "ListNT" /\ \E k \in 1..Len(n.Val) : Holds(n.Val[k], types)

\* The expression that the program read last holds for the shorthand e: the
\* second statement is either `[10, 11] op <e>` or `h := <e>`
Parsed == pending.prog.R.L.R

\* C19: the right operand of |>, where or map, and the right-hand side of a
\* constant declaration, is parsed into a lambda of the one parameter _ over
\* it exactly when it holds the underscore atom anywhere in its subtree (the
\* elements of a list literal included) and holds no map, where, pipe or
\* statement node; an expression that is a lambda already is left as it is.
C19_ImplicitLambda ==
    pending.op = "shorthand" =>
        LET e == Shorthands[pending.arg.i]
        IN  Parsed = IF /\ e.Type # "LambdaNT"
                        /\ Holds(e, {"UnderscoreNT"})
                        /\ ~Holds(e, {"MapNT", "WhereNT", "PipeNT", "StmtNT"})
                     THEN N("LambdaNT", "", N("ParamNT", "_", NilNode, NilNode), e)
                     ELSE e


\* C20: no scope has a name that is a key of both its Consts and its Vars.
\* envs holds every scope, as it was last written while it was part of an
\* environment chain (no key is ever deleted from either map).
C20_ConstsVarsDisjoint ==
    \A e \in 1..Len(envs) : (DOMAIN envs[e].Consts) \cap (DOMAIN envs[e].Vars) = {}


\* C21: while `a map f`, `a where f` or `a find f` applies f to the i-th
\* element, `index` resolves to i (from 0) in the ambient scope, and once the
\* expression has completed `index` is unbound there again: resolving it is
\* the undefined-identifier error it was before the traversal.
C21_IndexCleared ==
    last.op = "traverse" =>
        LET x == last.arg
            L == Elements(x.n, FALSE)
        IN  IF x.when # "during" THEN last.err = "is undefined"
            ELSE /\ last.err = ""
                 /\ x.op = "MapNT" =>
                        ListOf(last.res, St) = [i \in 1..x.n |-> newInt(i - 1)]
                 /\ x.op = "WhereNT" => ListOf(last.res, St) = SubSeq(L, 2, x.n)
                 /\ x.op = "FindNT" => last.res = IF x.n >= 2 THEN L[2] ELSE FAIL


\* C22: each iteration of a while or for body runs in a fresh child scope of
\* the loop's environment.  A constant or variable c declared in the body is
\* declared again in every iteration without an error; before its declaration
\* in an iteration the name does not resolve to the value of the iteration
\* before (it resolves to an outer c); after the loop c is the outer c, or
\* undefined when there is none.  s sums, per iteration, the c read before
\* the declaration (when there is an outer c = 100) and the c declared.
C22_LoopBodyScope ==
    last.op = "scope" =>
        LET x == last.arg
            declared == (x.n * (x.n + 1)) \div 2 + (IF x.kind = "for" THEN 9 * x.n ELSE 0)
        IN  CASE x.probe = "s" ->
                    /\ last.err = ""
                    /\ last.res = newInt(declared + (IF x.outer THEN 100 * x.n ELSE 0))
              [] x.outer -> last.err = "" /\ last.res = newInt(100)
              [] OTHER -> last.err = "is undefined"

\* Two iterations of a while body that reads the outer c = 100 and then
\* declares its own c: s = (100 + 1) + (100 + 2)
C22_Witness ==
    /\ last.op = "scope"
    /\ last.arg.kind = "while" /\ last.arg.n = 2 /\ last.arg.outer
    /\ last.arg.probe = "s"
    /\ last.res = newInt(203)


\* C23: a constant or variable declared inside the braces of an if, unless
\* or else is created in a child scope of its own: after the statement the
\* name is undefined, and a later declaration of the name in the enclosing
\* scope succeeds and is the one that a read of the name finds.
C23_BlockScope ==
    last.op = "block" =>
        IF last.arg.probe = "resolve" THEN last.err = "is undefined"
        ELSE last.err = "" /\ last.res = newInt(2)


\* C24: after any sequence of add and remove calls on a set s, #s is the
\* number of values x for which `x in s` is true.  The set starts as {1, 2}
\* and the calls add or remove 1, 2 or 3, so no other value is a member.
C24_SetCardinality ==
    last.op = "set" =>
        /\ last.err = ""
        /\ LET r == ListOf(last.res, St)
           IN  /\ Len(r) = 4
               /\ \A x \in 1..3 : r[x + 1] \in {TrueNode, FalseNode}
               /\ r[1] = newInt(Cardinality({x \in 1..3 : r[x + 1] = TrueNode}))


\* C25: for every source string Scan terminates and returns either no tokens
\* at all or a token sequence that holds exactly one EOF token, ends with a
\* newline token followed by that EOF token, and in which every } token comes
\* right after a newline token.
C25_ScanOutput ==
    last.op = "scan" =>
        \/ last.res.kind = "nil"
        \/ /\ last.res.kind = "tokens"
           /\ LET ts == last.res.tokens
                  n == Len(ts)
              IN  /\ n >= 2
                  /\ ts[n].tt = "EOFTT" /\ ts[n - 1].tt = "NewLineTT"
                  /\ \A i \in 1..(n - 1) : ts[i].tt # "EOFTT"
                  /\ \A i \in 1..n : ts[i].tt = "RightBraceTT" =>
                         i > 1 /\ ts[i - 1].tt = "NewLineTT"


\* C26: a parser built from the token consumers and the combinators Then,
\* ThenMaybe, ThenNot, ThenPeek, Either, Choice, Plus, Peek and Wrapped
\* consumes nothing on failure: when it returns a state with ok = false, the
\* remaining tokens of that state are the remaining tokens of the state it
\* was applied to.
C26_NoConsumptionOnFailure ==
    last.op = "parse" /\ ~last.res.ok => last.res.tokens = last.arg.tokens


\* The state after the matches of p one after the other from the state acc,
\* k of them so far: the tokens left by the last match, the node folded from
\* the left with the build function nRhs, and the number of matches
RECURSIVE Folded(_, _, _)
Folded(p, acc, k) ==
    LET next == Run(p, acc) IN
    IF ~next.ok THEN [state |-> acc, k |-> k]
    ELSE IF k = 0 THEN Folded(p, next, 1)
    ELSE Folded(p, [next EXCEPT !.node = nRhs(acc, next)], k + 1)

\* C27: Star(p, build) always succeeds and matches p zero or more times: when
\* p matches exactly k times in a row from the input, the resulting state
\* has consumed the tokens of all k matches and, for k >= 1, its node is the
\* left fold of the k match results with build.
C27_StarFolds ==
    last.op = "parse" /\ last.arg.p.op = "Star" =>
        LET f == Folded(last.arg.p.a, Start(last.arg.tokens), 0)
        IN  /\ last.res.ok
            /\ last.res.tokens = f.state.tokens
            /\ f.k >= 1 => last.res.node = f.state.node


\* C28: once a lambda value has a captured scope no later operation changes
\* it.  c is the closure that mk(v) returned; after c was passed through the
\* identity function, or returned from another call, a call of c (or of the
\* returned value d, which is c) still yields v.
C28_CaptureIsStable ==
    last.op = "closure" => last.err = "" /\ last.res = newInt(last.arg.v)


\* The sum of the elements 10, 11, ... of a list of n elements from the k-th
\* on, up to the element b (not included), without the element c
RECURSIVE ForMeaning(_, _, _, _)
ForMeaning(k, n, b, c) ==
    IF k > n \/ 9 + k = b THEN 0
    ELSE (IF 9 + k = c THEN 0 ELSE 9 + k) + ForMeaning(k + 1, n, b, c)

\* C29: in a for loop a continue skips the remaining statements of the body
\* for the current element and the loop goes on with the next element; a
\* break ends the loop: no further statement runs and no further element is
\* visited.  s, the sum the last body statement keeps, holds the elements
\* before the one that breaks, without the one that continues.
C29_ForBreakContinue ==
    last.op = "for" =>
        /\ last.err = ""
        /\ last.res = newInt(ForMeaning(1, last.arg.n, last.arg.b, last.arg.c))


\* C30: equality is symmetric.  For values a and b out of ints, floats,
\* strings, bools, null, success, fail and lists of these, a == b and b == a
\* evaluate to the same result, and so do a != b and b != a.
C30_EqualitySymmetric ==
    last.op = "equality" =>
        /\ last.err = ""
        /\ LET r == ListOf(last.res, St) IN Len(r) = 2 /\ r[1] = r[2]

-----------------------------------------------------------------------------
====
